---- MODULE Spec2Model ----
(***************************************************************************)
(* Model of the OCP specification parser (pynvme-test repository).         *)
(*                                                                         *)
(* The parser of src/OCP_parser_v3.py reads a page-ordered stream of text  *)
(* lines, cuts it into numbered sections, resolves each section's named    *)
(* hierarchy from the title map and extracts the "shall" requirements of   *)
(* each section with their context lines and anchors.                      *)
(*                                                                         *)
(* A Python str is modelled as a sequence of tokens (a digit group, a      *)
(* word, one punctuation or whitespace character); the regular             *)
(* expressions of the parser are operators on such sequences.  None is     *)
(* the empty sequence <<>> and a present Optional value v is <<v>>.        *)
(***************************************************************************)
EXTENDS Integers, Sequences, FiniteSets, TLC

VARIABLES
    pc,                 \* "loop": parse is inside its loops; "done": parse has returned
    page_number,        \* parse: page_number of the page being read
    stream,             \* the (page_number, line) pairs parse has read so far, in order
    sections,           \* parse: the local list `sections`
    current,            \* parse: the local `current` (None or the open section)
    section_title_map,  \* self.section_title_map
    output,             \* parse of the flattened parser: the local list `output`
    process,            \* main: the command line, the file system and the exit status
    other,              \* a second parser instance, working on a document of its own
    call                \* a call of a function of the other variants: None, or the
                        \* function, its arguments and (once returned) its result

vars == <<pc, page_number, stream, sections, current, section_title_map, output,
          process, other, call>>

(***************************************************************************)
(* Bounds of the explored documents.                                       *)
(***************************************************************************)
MaxLines == 4
MaxPage == 2
MaxLinesEndToEnd == 5
MaxLinesEach == 3
MaxComponents == 4
MaxToc == 3

(***************************************************************************)
(* Optional values and small sequence helpers.                             *)
(***************************************************************************)
None == <<>>

Some(v) == <<v>>

Last(s) == s[Len(s)]

Range(s) == {s[i] : i \in DOMAIN s}

(***************************************************************************)
(* Character classes of the tokens.                                        *)
(***************************************************************************)
IsSpace(t) == t \in {" ", "\t"}

IsDigits(t) == t \in {"1", "2", "3", "4", "5", "6", "7", "8", "9"}

\* a token made of word characters (letters, digits, underscores)
IsWordTok(t) == t \notin {" ", "\t", "\n", ".", "(", ")", ",", ";"}

\* re.IGNORECASE: the lower-case form of the words the patterns name
Lower(t) ==
    CASE t \in {"shall", "Shall", "SHALL"} -> "shall"
      [] t \in {"see", "See", "SEE"} -> "see"
      [] OTHER -> t

\* str(k) for a one-digit integer
DecimalTok(k) ==
    IF k = 0 THEN "0" ELSE <<"1", "2", "3", "4", "5", "6", "7", "8", "9">>[k]

\* len() of a token in characters
TokLen(t) ==
    CASE t \in {"shall", "Shall", "SHALL", "Intro", "Power", "power"} -> 5
      [] t \in {"see", "See", "SEE", "log", "The", "End"} -> 3
      [] t \in {"Leaf", "Deep", "text"} -> 4
      [] t \in {"It", "We"} -> 2
      [] t \in {"marshall", "Overview"} -> 8
      [] t \in {"report", "budget", "Budget"} -> 6
      [] t = "Section" -> 7
      [] t = "controller" -> 10
      [] t = "section_" -> 8
      [] t = "_req_" -> 5
      [] OTHER -> 1

(***************************************************************************)
(* str methods used by the parser.                                         *)
(***************************************************************************)
RECURSIVE lstrip(_)
lstrip(s) ==
    IF s # <<>> /\ IsSpace(Head(s)) THEN lstrip(Tail(s)) ELSE s

RECURSIVE rstrip(_)
rstrip(s) ==
    IF s # <<>> /\ IsSpace(Last(s)) THEN rstrip(SubSeq(s, 1, Len(s) - 1)) ELSE s

\* s.strip()
strip(s) == rstrip(lstrip(s))

\* s.split("."): the pieces between the "." tokens
RECURSIVE split_dot(_)
split_dot(s) ==
    IF \A i \in DOMAIN s : s[i] # "."
    THEN <<s>>
    ELSE LET d == CHOOSE i \in DOMAIN s : s[i] = "." /\ \A j \in 1..(i - 1) : s[j] # "."
         IN  <<SubSeq(s, 1, d - 1)>> \o split_dot(SubSeq(s, d + 1, Len(s)))

\* ".".join(parts)
RECURSIVE join_dot(_)
join_dot(parts) ==
    IF parts = <<>> THEN <<>>
    ELSE IF Len(parts) = 1 THEN parts[1]
    ELSE parts[1] \o <<".">> \o join_dot(Tail(parts))

\* "\n".join(lines)
RECURSIVE join_newline(_)
join_newline(lines) ==
    IF lines = <<>> THEN <<>>
    ELSE IF Len(lines) = 1 THEN lines[1]
    ELSE lines[1] \o <<"\n">> \o join_newline(Tail(lines))

\* s.replace(".", "_")
replace_dot(s) == [i \in DOMAIN s |-> IF s[i] = "." THEN "_" ELSE s[i]]

\* len(s) in characters
RECURSIVE char_len(_)
char_len(s) == IF s = <<>> THEN 0 ELSE TokLen(Head(s)) + char_len(Tail(s))

\* len(s.split()): the number of maximal runs of non-whitespace characters
word_count(s) ==
    Cardinality({i \in DOMAIN s :
        /\ ~(IsSpace(s[i]) \/ s[i] = "\n")
        /\ (i = 1 \/ IsSpace(s[i - 1]) \/ s[i - 1] = "\n")})

(***************************************************************************)
(* SECTION_PATTERN: at the start of the line a dotted number (digit groups  *)
(* separated by single dots), then a run of whitespace, then at least one  *)
(* more character up to the end of the line.                               *)
(***************************************************************************)
\* the last index of the run of digit tokens that starts at i (i - 1: no digit at i)
RECURSIVE DigitsEnd(_, _)
DigitsEnd(s, i) ==
    IF i <= Len(s) /\ IsDigits(s[i]) THEN DigitsEnd(s, i + 1) ELSE i - 1

\* the last index of the groups "dot, digits" matched greedily after index e
RECURSIVE DotGroupsEnd(_, _)
DotGroupsEnd(s, e) ==
    IF e + 2 <= Len(s) /\ s[e + 1] = "." /\ IsDigits(s[e + 2])
    THEN DotGroupsEnd(s, DigitsEnd(s, e + 2))
    ELSE e

\* the last index of the run of whitespace tokens that starts at i (i - 1: none)
RECURSIVE SpaceEnd(_, _)
SpaceEnd(s, i) ==
    IF i <= Len(s) /\ IsSpace(s[i]) THEN SpaceEnd(s, i + 1) ELSE i - 1

\* SECTION_PATTERN.match(line): None, or the groups 1 and 3 of the match
SECTION_PATTERN_match(line) ==
    LET d == DigitsEnd(line, 1)
        e == IF d = 0 THEN 0 ELSE DotGroupsEnd(line, d)
        w == SpaceEnd(line, e + 1)
    IN  IF e = 0 \/ w = e THEN None
        ELSE IF w < Len(line)
        THEN Some([number |-> SubSeq(line, 1, e),
                   title |-> SubSeq(line, w + 1, Len(line))])
        \* only whitespace follows the number: the whitespace run gives its last
        \* character to the title group
        ELSE IF w - e >= 2
        THEN Some([number |-> SubSeq(line, 1, e), title |-> <<line[w]>>])
        ELSE None

(***************************************************************************)
(* SHALL_PATTERN: the whole word "shall", in any letter case.               *)
(***************************************************************************)
\* Fault injection for C12: the pattern without its word boundaries, which finds
\* "shall" inside a longer word.
SHALL_PATTERN_search_substring(line) ==
    \E i \in DOMAIN line : Lower(line[i]) \in {"shall", "marshall"}

SHALL_PATTERN_search(line) ==
    \E i \in DOMAIN line :
        /\ Lower(line[i]) = "shall"
        /\ (i = 1 \/ ~IsWordTok(line[i - 1]))
        /\ (i = Len(line) \/ ~IsWordTok(line[i + 1]))

(***************************************************************************)
(* ANCHOR_PATTERN: an opening parenthesis, the whole word "see" in any      *)
(* letter case, then everything up to the first closing parenthesis.       *)
(***************************************************************************)
\* the index of the ")" that ends a match starting at i, 0 when none starts there
AnchorEndAt(s, i) ==
    IF /\ s[i] = "("
       /\ i + 1 <= Len(s)
       /\ Lower(s[i + 1]) = "see"
       /\ (i + 2 > Len(s) \/ ~IsWordTok(s[i + 2]))
       /\ \E j \in (i + 2)..Len(s) : s[j] = ")"
    THEN CHOOSE j \in (i + 2)..Len(s) :
            s[j] = ")" /\ \A k \in (i + 2)..(j - 1) : s[k] # ")"
    ELSE 0

\* the start of the leftmost match at or after pos, 0 when there is none
RECURSIVE AnchorStartFrom(_, _)
AnchorStartFrom(s, pos) ==
    IF pos > Len(s) THEN 0
    ELSE IF AnchorEndAt(s, pos) # 0 THEN pos
    ELSE AnchorStartFrom(s, pos + 1)

\* ANCHOR_PATTERN.search(s): None or the matched text, group(0)
ANCHOR_PATTERN_search(s) ==
    LET i == AnchorStartFrom(s, 1)
    IN  IF i = 0 THEN None ELSE Some(SubSeq(s, i, AnchorEndAt(s, i)))

\* ANCHOR_PATTERN.findall(s) from pos on: the non-overlapping matches, left to right
RECURSIVE AnchorFindallFrom(_, _)
AnchorFindallFrom(s, pos) ==
    LET i == AnchorStartFrom(s, pos)
    IN  IF i = 0 THEN <<>>
        ELSE LET j == AnchorEndAt(s, i)
             IN  <<SubSeq(s, i, j)>> \o AnchorFindallFrom(s, j + 1)

ANCHOR_PATTERN_findall(s) == AnchorFindallFrom(s, 1)

(***************************************************************************)
(* Hierarchy: OCPSpecificationParser.build_hierarchy_tree.  The title map  *)
(* is a function from section numbers to full names.                       *)
(***************************************************************************)
\* Fault injection for C2: a prefix that is no key is kept as its raw number.
RECURSIVE ancestors_loop_placeholder(_, _, _)
ancestors_loop_placeholder(title_map, parts, i) ==
    IF i > Len(parts) - 1 THEN <<>>
    ELSE LET key == join_dot(SubSeq(parts, 1, i))
         IN  <<IF key \in DOMAIN title_map THEN title_map[key] ELSE key>>
                 \o ancestors_loop_placeholder(title_map, parts, i + 1)

\* for i in range(1, len(parts)): the full names of the prefixes that are keys
RECURSIVE ancestors_loop(_, _, _)
ancestors_loop(title_map, parts, i) ==
    IF i > Len(parts) - 1 THEN <<>>
    ELSE LET key == join_dot(SubSeq(parts, 1, i))
         IN  (IF key \in DOMAIN title_map THEN <<title_map[key]>> ELSE <<>>)
                 \o ancestors_loop(title_map, parts, i + 1)

build_hierarchy_tree(title_map, section_number) ==
    LET parts == split_dot(section_number)
        ancestors == ancestors_loop(title_map, parts, 1)
    IN  [current |-> IF section_number \in DOMAIN title_map
                     THEN title_map[section_number] ELSE section_number,
         parent |-> IF ancestors # <<>> THEN Some(Last(ancestors)) ELSE None,
         grandparent |-> IF Len(ancestors) >= 2
                         THEN Some(ancestors[Len(ancestors) - 1]) ELSE None,
         ancestors |-> ancestors]

(***************************************************************************)
(* Requirements: OCPSpecificationParser.extract_requirements_with_context. *)
(* Python indexes lines from 0, the model from 1.                          *)
(***************************************************************************)
\* Fault injection for C8: the line next to the shall-line is taken as it is, blank
\* or not.
context_before_loop_adjacent(lines, i) ==
    IF i < 1 THEN <<>> ELSE <<lines[i]>>

\* the while loop of "Context BEFORE", entered with i = idx - 1
RECURSIVE context_before_loop(_, _)
context_before_loop(lines, i) ==
    IF i < 1 THEN <<>>
    ELSE IF strip(lines[i]) # <<>> THEN <<lines[i]>>
    ELSE context_before_loop(lines, i - 1)

\* the while loop of "Context AFTER", entered with i = idx + 1
RECURSIVE context_after_loop(_, _)
context_after_loop(lines, i) ==
    IF i > Len(lines) THEN <<>>
    ELSE IF strip(lines[i]) # <<>> THEN <<lines[i]>>
    ELSE context_after_loop(lines, i + 1)

\* Fault injection for C9: the context-after line is searched before the shall-line.
anchor_detection_after_first(line, after) ==
    LET anchor_match == IF after # <<>> THEN ANCHOR_PATTERN_search(after[1]) ELSE None
    IN  IF anchor_match = None THEN ANCHOR_PATTERN_search(line) ELSE anchor_match

\* "Anchor detection": the shall-line first, then the context-after line
anchor_detection(line, after) ==
    LET anchor_match == ANCHOR_PATTERN_search(line)
    IN  IF anchor_match = None /\ after # <<>>
        THEN ANCHOR_PATTERN_search(after[1])
        ELSE anchor_match

\* Fault injection for C10: the requirements are numbered from 0.
requirement_id_zero_based(section_id, requirements) ==
    section_id \o <<"_req_", DecimalTok(Len(requirements))>>

\* req_id = f"{section_id}_req_{len(requirements) + 1}"
requirement_id(section_id, requirements) ==
    section_id \o <<"_req_", DecimalTok(Len(requirements) + 1)>>

\* for idx, line in enumerate(lines), with the list `requirements` built so far
RECURSIVE requirements_loop(_, _, _, _, _, _, _)
requirements_loop(lines, idx, requirements, section_id, hierarchy, parent_hierarchy, page) ==
    IF idx > Len(lines) THEN requirements
    ELSE IF ~SHALL_PATTERN_search(lines[idx])
    THEN requirements_loop(lines, idx + 1, requirements, section_id, hierarchy,
                           parent_hierarchy, page)
    ELSE LET before == context_before_loop(lines, idx - 1)
             after == context_after_loop(lines, idx + 1)
             req == [requirement_id |-> requirement_id(section_id, requirements),
                     shall_text |-> lines[idx],
                     context_before |-> before,
                     context_after |-> after,
                     anchor |-> anchor_detection(lines[idx], after),
                     page_number |-> page,
                     hierarchy |-> hierarchy,
                     parent_hierarchy |-> parent_hierarchy]
         IN  requirements_loop(lines, idx + 1, Append(requirements, req),
                               section_id, hierarchy, parent_hierarchy, page)

extract_requirements_with_context(lines, section_id, hierarchy, parent_hierarchy, page) ==
    requirements_loop(lines, 1, <<>>, section_id, hierarchy, parent_hierarchy, page)

(***************************************************************************)
(* Finalization: OCPSpecificationParser._finalize_section.                 *)
(***************************************************************************)
\* section_id = f'section_{data["number"].replace(".", "_")}'
section_id_token(number) == <<"section_">> \o replace_dot(number)

\* Fault injection for C14: reference_count counts the requirements that carry an
\* anchor instead of the matches in the content.
finalize_section_count_attached(title_map, data) ==
    LET lines == data.lines
        content == join_newline(lines)
        hierarchy_tree == build_hierarchy_tree(title_map, data.number)
        section_id == section_id_token(data.number)
        requirements ==
            extract_requirements_with_context(lines, section_id, data.full_name,
                                              hierarchy_tree.parent, data.page_number)
        metadata == [content_length |-> char_len(content),
                     requirement_count |-> Len(requirements),
                     reference_count |-> Cardinality({n \in DOMAIN requirements :
                                         requirements[n].anchor # None}),
                     has_subsections |-> \E i \in DOMAIN data.number : data.number[i] = ".",
                     depth |-> Len(split_dot(data.number)),
                     word_count |-> word_count(content)]
    IN  [id |-> section_id,
         hierarchy |-> data.full_name,
         hierarchy_tree |-> hierarchy_tree,
         title |-> data.title,
         requirements |-> requirements,
         page_number |-> data.page_number,
         metadata |-> metadata,
         raw_content |-> content]

\* Fault injection for C15: depth and has_subsections come from the ancestors found
\* in the title map instead of the section number.
finalize_section_depth_by_ancestors(title_map, data) ==
    LET lines == data.lines
        content == join_newline(lines)
        hierarchy_tree == build_hierarchy_tree(title_map, data.number)
        section_id == section_id_token(data.number)
        requirements ==
            extract_requirements_with_context(lines, section_id, data.full_name,
                                              hierarchy_tree.parent, data.page_number)
        metadata == [content_length |-> char_len(content),
                     requirement_count |-> Len(requirements),
                     reference_count |-> Len(ANCHOR_PATTERN_findall(content)),
                     has_subsections |-> hierarchy_tree.ancestors # <<>>,
                     depth |-> Len(hierarchy_tree.ancestors) + 1,
                     word_count |-> word_count(content)]
    IN  [id |-> section_id,
         hierarchy |-> data.full_name,
         hierarchy_tree |-> hierarchy_tree,
         title |-> data.title,
         requirements |-> requirements,
         page_number |-> data.page_number,
         metadata |-> metadata,
         raw_content |-> content]

\* Fault injection for C26: the requirements get the page parse is reading when the
\* section is finalized instead of the page of the section's header.
finalize_section_page_at_close(title_map, data) ==
    LET lines == data.lines
        content == join_newline(lines)
        hierarchy_tree == build_hierarchy_tree(title_map, data.number)
        section_id == section_id_token(data.number)
        requirements ==
            extract_requirements_with_context(lines, section_id, data.full_name,
                                              hierarchy_tree.parent, page_number)
        metadata == [content_length |-> char_len(content),
                     requirement_count |-> Len(requirements),
                     reference_count |-> Len(ANCHOR_PATTERN_findall(content)),
                     has_subsections |-> \E i \in DOMAIN data.number : data.number[i] = ".",
                     depth |-> Len(split_dot(data.number)),
                     word_count |-> word_count(content)]
    IN  [id |-> section_id,
         hierarchy |-> data.full_name,
         hierarchy_tree |-> hierarchy_tree,
         title |-> data.title,
         requirements |-> requirements,
         page_number |-> data.page_number,
         metadata |-> metadata,
         raw_content |-> content]

finalize_section(title_map, data) ==
    LET lines == data.lines
        content == join_newline(lines)
        hierarchy_tree == build_hierarchy_tree(title_map, data.number)
        section_id == section_id_token(data.number)
        requirements ==
            extract_requirements_with_context(lines, section_id, data.full_name,
                                              hierarchy_tree.parent, data.page_number)
        metadata == [content_length |-> char_len(content),
                     requirement_count |-> Len(requirements),
                     reference_count |-> Len(ANCHOR_PATTERN_findall(content)),
                     has_subsections |-> \E i \in DOMAIN data.number : data.number[i] = ".",
                     depth |-> Len(split_dot(data.number)),
                     word_count |-> word_count(content)]
    IN  [id |-> section_id,
         hierarchy |-> data.full_name,
         hierarchy_tree |-> hierarchy_tree,
         title |-> data.title,
         requirements |-> requirements,
         page_number |-> data.page_number,
         metadata |-> metadata,
         raw_content |-> content]

(***************************************************************************)
(* The flattened parser of src/ocp_parser.py: one record per shall-line,   *)
(* or one record for a section without shall-line.  It has the patterns    *)
(* and the parse loop of the nested parser; its hierarchy tree has no      *)
(* `current` entry and its section data no title.                          *)
(***************************************************************************)
flat_build_hierarchy_tree(title_map, section_number) ==
    LET parts == split_dot(section_number)
        ancestors == ancestors_loop(title_map, parts, 1)
    IN  [parent |-> IF ancestors # <<>> THEN Some(Last(ancestors)) ELSE None,
         grandparent |-> IF Len(ancestors) > 1
                         THEN Some(ancestors[Len(ancestors) - 1]) ELSE None,
         ancestors |-> ancestors]

\* next((lines[i] for i in range(idx - 1, -1, -1) if lines[i].strip()), None)
RECURSIVE flat_before(_, _)
flat_before(lines, i) ==
    IF i < 1 THEN None
    ELSE IF strip(lines[i]) # <<>> THEN Some(lines[i])
    ELSE flat_before(lines, i - 1)

\* next((lines[i] for i in range(idx + 1, len(lines)) if lines[i].strip()), None)
RECURSIVE flat_after(_, _)
flat_after(lines, i) ==
    IF i > Len(lines) THEN None
    ELSE IF strip(lines[i]) # <<>> THEN Some(lines[i])
    ELSE flat_after(lines, i + 1)

\* anchor_match of the flattened parser: the shall-line first, then the line after
flat_anchor(line, after) ==
    LET anchor_match == ANCHOR_PATTERN_search(line)
    IN  IF anchor_match = None /\ after # None /\ after[1] # <<>>
        THEN ANCHOR_PATTERN_search(after[1])
        ELSE anchor_match

(***************************************************************************)
(* extract_key_phrases: the set of the texts matched by one of the         *)
(* KEY_PHRASE_PATTERNS, all searched with re.IGNORECASE.  sorted() of a    *)
(* set is determined by the set, which stands for it here.                 *)
(***************************************************************************)
\* a token that starts with a letter
IsLetterTok(t) == IsWordTok(t) /\ ~IsDigits(t) /\ t # "0x1F"

IsUnitTok(t) == t \in {"ms", "us", "ns", "s", "S", "V", "v", "A", "a", "W", "w"}

\* a word boundary before position i of s, and after position i of s
BoundaryBefore(s, i) == i = 1 \/ ~IsWordTok(s[i - 1])

BoundaryAfter(s, i) == i = Len(s) \/ ~IsWordTok(s[i + 1])

\* the last index of the run of word tokens that starts at i
RECURSIVE WordRunEnd(_, _)
WordRunEnd(s, i) ==
    IF i < Len(s) /\ IsWordTok(s[i + 1]) THEN WordRunEnd(s, i + 1) ELSE i

\* the phrases "shall not", each with its letter case
ShallNotPhrases(s) ==
    {SubSeq(s, i, i + 2) : i \in {j \in 1..(Len(s) - 2) :
        /\ Lower(s[j]) = "shall" /\ s[j + 1] = " " /\ s[j + 2] \in {"not", "Not", "NOT"}
        /\ BoundaryBefore(s, j) /\ BoundaryAfter(s, j + 2)}}

\* the first index of the run of whitespace tokens that ends at i (i + 1: none)
RECURSIVE SpaceStart(_, _)
SpaceStart(s, i) ==
    IF i >= 1 /\ IsSpace(s[i]) THEN SpaceStart(s, i - 1) ELSE i + 1

\* the first index of the run of digit tokens that ends at i (i + 1: none)
RECURSIVE DigitsStart(_, _)
DigitsStart(s, i) ==
    IF i >= 1 /\ IsDigits(s[i]) THEN DigitsStart(s, i - 1) ELSE i + 1

\* the units that follow a number, with or without whitespace in between
UnitPhrases(s) ==
    {<<s[u]>> : u \in {j \in 2..Len(s) :
        /\ IsUnitTok(s[j])
        /\ BoundaryAfter(s, j)
        /\ LET w == SpaceStart(s, j - 1)
               d == DigitsStart(s, w - 1)
           IN  d <= w - 1 /\ BoundaryBefore(s, d)}}

\* the hexadecimal numbers
HexPhrases(s) ==
    {<<s[i]>> : i \in {j \in DOMAIN s :
        s[j] = "0x1F" /\ BoundaryBefore(s, j) /\ BoundaryAfter(s, j)}}

\* the words of two characters or more that start with a letter; they include the
\* matches of the patterns for shall, must, enable, disable, supported, unsupported
WordPhrases(s) ==
    {SubSeq(s, i, WordRunEnd(s, i)) : i \in {j \in DOMAIN s :
        /\ IsLetterTok(s[j]) /\ BoundaryBefore(s, j)
        /\ char_len(SubSeq(s, j, WordRunEnd(s, j))) >= 2}}

extract_key_phrases(text) ==
    ShallNotPhrases(text) \cup UnitPhrases(text) \cup HexPhrases(text)
        \cup WordPhrases(text)

(***************************************************************************)
(* _finalize_section of the flattened parser.  Every record of a section   *)
(* holds metadata.__dict__, the one dictionary of the section's metadata   *)
(* object, so the assignment to requirement_count that follows the loop    *)
(* shows in all of them.                                                   *)
(***************************************************************************)
\* Fault injection for C13: each record holds a copy of the dictionary, taken when
\* the record was made.
metadata_dict_snapshot(records, requirement_count) == records

\* metadata.requirement_count = len(records), seen through every record
metadata_dict(records, requirement_count) ==
    [i \in DOMAIN records |->
        [records[i] EXCEPT !.metadata.requirement_count = requirement_count]]

\* for idx, line in enumerate(lines), with the list `records` built so far
RECURSIVE flat_records_loop(_, _, _, _, _, _)
flat_records_loop(lines, idx, records, data, hierarchy_tree, metadata) ==
    IF idx > Len(lines) THEN records
    ELSE IF ~SHALL_PATTERN_search(lines[idx])
    THEN flat_records_loop(lines, idx + 1, records, data, hierarchy_tree, metadata)
    ELSE LET line == lines[idx]
             before == flat_before(lines, idx - 1)
             after == flat_after(lines, idx + 1)
             record == [hierarchy |-> data.hierarchy,
                        hierarchy_tree |-> hierarchy_tree,
                        page_number |-> data.page_number,
                        shall_sentence |-> Some(strip(line)),
                        before_shall |-> before,
                        after_shall |-> after,
                        anchor |-> flat_anchor(line, after),
                        key_phrases |-> extract_key_phrases(line),
                        metadata |-> metadata]
         IN  flat_records_loop(lines, idx + 1, Append(records, record), data,
                               hierarchy_tree, metadata)

\* the record of a section without shall-line
flat_empty_record(data, hierarchy_tree, metadata) ==
    [hierarchy |-> data.hierarchy,
     hierarchy_tree |-> hierarchy_tree,
     page_number |-> data.page_number,
     shall_sentence |-> None,
     before_shall |-> None,
     after_shall |-> None,
     anchor |-> None,
     key_phrases |-> {},
     metadata |-> metadata]

\* Fault injection for C11: the record of an empty section is appended to the
\* records of every section.
flat_finalize_section_always_empty(title_map, data) ==
    LET lines == data.lines
        content == join_newline(lines)
        hierarchy_tree == flat_build_hierarchy_tree(title_map, data.number)
        metadata == [content_length |-> char_len(content),
                     requirement_count |-> 0,
                     reference_count |-> Len(ANCHOR_PATTERN_findall(content)),
                     has_subsections |-> \E i \in DOMAIN data.number : data.number[i] = ".",
                     depth |-> Len(split_dot(data.number)),
                     word_count_in_section |-> word_count(content)]
        found == flat_records_loop(lines, 1, <<>>, data, hierarchy_tree, metadata)
        records == Append(found, flat_empty_record(data, hierarchy_tree, metadata))
    IN  metadata_dict(records, Len(records))

flat_finalize_section(title_map, data) ==
    LET lines == data.lines
        content == join_newline(lines)
        hierarchy_tree == flat_build_hierarchy_tree(title_map, data.number)
        metadata == [content_length |-> char_len(content),
                     requirement_count |-> 0,
                     reference_count |-> Len(ANCHOR_PATTERN_findall(content)),
                     has_subsections |-> \E i \in DOMAIN data.number : data.number[i] = ".",
                     depth |-> Len(split_dot(data.number)),
                     word_count_in_section |-> word_count(content)]
        found == flat_records_loop(lines, 1, <<>>, data, hierarchy_tree, metadata)
        records == IF found = <<>>
                   THEN <<flat_empty_record(data, hierarchy_tree, metadata)>>
                   ELSE found
    IN  metadata_dict(records, Len(records))

(***************************************************************************)
(* The lines the explored documents are made of.                           *)
(***************************************************************************)
H3Intro == <<"3", " ", "Intro">>

H3Power == <<"3", " ", "Power">>

H32Power == <<"3", ".", "2", " ", "Power">>

H321Leaf == <<"3", ".", "2", ".", "1", " ", "Leaf">>

H3211Deep == <<"3", ".", "2", ".", "1", ".", "1", " ", "Deep">>

LineA == <<"A", ".">>

LineBlank == <<" ">>

LineShall == <<"It", " ", "shall", " ", "log", ".">>

LineShallTwoAnchors ==
    <<" ", "Shall", " ", "(", "see", " ", "A", ")", " ", "(", "See", " ", "B", ")">>

LineAnchorC == <<"(", "see", " ", "C", ")">>

H4Shall == <<"4", " ", "It", " ", "shall">>

LineMarshall == <<"We", " ", "marshall", ".">>

LineShallAnchor == <<"It", " ", "SHALL", " ", "(", "see", " ", "C", ")">>

LineOpenSee == <<"(", "see", " ", "A">>

LineOverview == <<"Overview", " ", "text", ".">>

H31PowerBudget == <<"3", ".", "1", " ", "Power", " ", "Budget">>

LineControllerShall ==
    <<"The", " ", "controller", " ", "shall", " ", "report", " ", "power", " ",
      "budget", ".", " ", "(", "see", " ", "Section", " ", "3", ".", "2", ")">>

LineEndText == <<"End", " ", "text", ".">>

LineMeasure == <<"5", " ", "V">>

LineEmpty == <<>>

LineSpaceTitle == <<"3", " ", " ">>

LineShallPadded == <<" ", "It", " ", "shall", ".", " ">>

\* documents of several pages that exercise the segmentation
SegLines == {H3Intro, H32Power, LineA, LineShall}

\* one-page documents that exercise the hierarchy
HierLines == {H3Intro, H3Power, H32Power, H321Leaf, H3211Deep, LineShall}

\* one-page documents that exercise the extraction of requirements
ReqLines == {H3Intro, H32Power, LineA, LineBlank, LineShall, LineShallTwoAnchors,
             LineAnchorC}

\* one-page documents that exercise the search for "shall" and the count of anchors
ShallLines == {H3Intro, H4Shall, LineShall, LineMarshall, LineShallAnchor, LineOpenSee}

\* one-page documents made of the lines of the end-to-end example
EndToEndLines == {H3Power, LineOverview, H31PowerBudget, LineControllerShall, LineEndText}

\* one-page documents with headers out of numeric order, headers that repeat an id,
\* a measurement and a number followed by blanks that read as headers, and empty lines
TotalLines == {H32Power, H3Intro, LineMeasure, LineSpaceTitle, LineEmpty, LineShall}

\* the one-page documents two parser instances read side by side
PairLines == {H3Intro, H3Power, H32Power}

\* one-page documents with lines that start or end with whitespace
VerbatimLines == {H3Intro, LineA, LineBlank, LineShall, LineShallPadded}

(***************************************************************************)
(* OCPSpecificationParser.__init__ and parse.                              *)
(***************************************************************************)
\* a parser instance after __init__, when its parse enters the loops on the first page
fresh_instance ==
    [pc |-> "loop", page_number |-> 1, stream |-> <<>>, sections |-> <<>>,
     current |-> None, section_title_map |-> <<>>]

\* the state after __init__, when parse enters its loops on the first page
Init ==
    /\ pc = "loop"
    /\ page_number = 1
    /\ stream = <<>>
    /\ sections = <<>>
    /\ current = None
    /\ section_title_map = <<>>
    /\ output = <<>>
    /\ process = [argc |-> 2, path_exists |-> TRUE, constructed |-> TRUE,
                  output_file |-> None, exit_status |-> None]
    /\ other = fresh_instance
    /\ call = None

\* Fault injection for C23: the assignment starts a new map that holds the one entry.
title_map_set_new_map(title_map, number, full_name) ==
    [k \in {number} |-> full_name]

\* Fault injection for C27: an entry is written once and a header that repeats a
\* number leaves it as it is.
title_map_set_keep_first(title_map, number, full_name) ==
    IF number \in DOMAIN title_map THEN title_map
    ELSE [k \in (DOMAIN title_map) \cup {number} |->
             IF k = number THEN full_name ELSE title_map[k]]

\* self.section_title_map[number] = full_name
title_map_set(title_map, number, full_name) ==
    [k \in (DOMAIN title_map) \cup {number} |->
        IF k = number THEN full_name ELSE title_map[k]]

\* Fault injection for C3: the new header is registered before the open section
\* is finalized, so the closing header can show up in the closed section's tree.
parse_line_register_first(line) ==
    /\ pc = "loop"
    /\ stream' = Append(stream, [page_number |-> page_number, line |-> line])
    /\ LET match == SECTION_PATTERN_match(line)
       IN  IF match # None
           THEN LET number == match[1].number
                    title == match[1].title
                    full_name == number \o <<" ">> \o title
                IN  /\ section_title_map' =
                           title_map_set(section_title_map, number, full_name)
                    /\ sections' =
                           IF current # None
                           THEN Append(sections,
                                       finalize_section(section_title_map', current[1]))
                           ELSE sections
                    /\ current' = Some([number |-> number,
                                        title |-> title,
                                        full_name |-> full_name,
                                        page_number |-> page_number,
                                        lines |-> <<>>])
           ELSE IF current # None
           THEN /\ current' = Some([current[1] EXCEPT !.lines = Append(@, line)])
                /\ UNCHANGED <<sections, section_title_map>>
           ELSE UNCHANGED <<sections, current, section_title_map>>
    /\ UNCHANGED <<pc, page_number, output, process, other, call>>

\* Fault injection for C4: a header closes the open section without emitting it
\* when the section has no content line.
parse_line_skip_empty(line) ==
    /\ pc = "loop"
    /\ stream' = Append(stream, [page_number |-> page_number, line |-> line])
    /\ LET match == SECTION_PATTERN_match(line)
       IN  IF match # None
           THEN LET number == match[1].number
                    title == match[1].title
                    full_name == number \o <<" ">> \o title
                IN  /\ sections' =
                           IF current # None /\ current[1].lines # <<>>
                           THEN Append(sections,
                                       finalize_section(section_title_map, current[1]))
                           ELSE sections
                    /\ section_title_map' =
                           title_map_set(section_title_map, number, full_name)
                    /\ current' = Some([number |-> number,
                                        title |-> title,
                                        full_name |-> full_name,
                                        page_number |-> page_number,
                                        lines |-> <<>>])
           ELSE IF current # None
           THEN /\ current' = Some([current[1] EXCEPT !.lines = Append(@, line)])
                /\ UNCHANGED <<sections, section_title_map>>
           ELSE UNCHANGED <<sections, current, section_title_map>>
    /\ UNCHANGED <<pc, page_number, output, process, other, call>>

\* Fault injection for C5: a content line is kept only when it stands on the page
\* of the section's header.
parse_line_page_local(line) ==
    /\ pc = "loop"
    /\ stream' = Append(stream, [page_number |-> page_number, line |-> line])
    /\ LET match == SECTION_PATTERN_match(line)
       IN  IF match # None
           THEN LET number == match[1].number
                    title == match[1].title
                    full_name == number \o <<" ">> \o title
                IN  /\ sections' =
                           IF current # None
                           THEN Append(sections,
                                       finalize_section(section_title_map, current[1]))
                           ELSE sections
                    /\ section_title_map' =
                           title_map_set(section_title_map, number, full_name)
                    /\ current' = Some([number |-> number,
                                        title |-> title,
                                        full_name |-> full_name,
                                        page_number |-> page_number,
                                        lines |-> <<>>])
           ELSE IF current # None
           THEN /\ current' = IF page_number = current[1].page_number
                              THEN Some([current[1] EXCEPT !.lines = Append(@, line)])
                              ELSE current
                /\ UNCHANGED <<sections, section_title_map>>
           ELSE UNCHANGED <<sections, current, section_title_map>>
    /\ UNCHANGED <<pc, page_number, output, process, other, call>>

\* Fault injection for C6: a line read before the first header opens an unnamed
\* section instead of being discarded.
parse_line_implicit_section(line) ==
    /\ pc = "loop"
    /\ stream' = Append(stream, [page_number |-> page_number, line |-> line])
    /\ LET match == SECTION_PATTERN_match(line)
       IN  IF match # None
           THEN LET number == match[1].number
                    title == match[1].title
                    full_name == number \o <<" ">> \o title
                IN  /\ sections' =
                           IF current # None
                           THEN Append(sections,
                                       finalize_section(section_title_map, current[1]))
                           ELSE sections
                    /\ section_title_map' =
                           title_map_set(section_title_map, number, full_name)
                    /\ current' = Some([number |-> number,
                                        title |-> title,
                                        full_name |-> full_name,
                                        page_number |-> page_number,
                                        lines |-> <<>>])
           ELSE IF current # None
           THEN /\ current' = Some([current[1] EXCEPT !.lines = Append(@, line)])
                /\ UNCHANGED <<sections, section_title_map>>
           ELSE /\ current' = Some([number |-> <<"0">>,
                                    title |-> <<>>,
                                    full_name |-> <<"0">>,
                                    page_number |-> page_number,
                                    lines |-> <<line>>])
                /\ UNCHANGED <<sections, section_title_map>>
    /\ UNCHANGED <<pc, page_number, output, process, other, call>>

\* Fault injection for C16: the header line is kept as the first content line of
\* the section it opens.
parse_line_header_in_content(line) ==
    /\ pc = "loop"
    /\ stream' = Append(stream, [page_number |-> page_number, line |-> line])
    /\ LET match == SECTION_PATTERN_match(line)
       IN  IF match # None
           THEN LET number == match[1].number
                    title == match[1].title
                    full_name == number \o <<" ">> \o title
                IN  /\ sections' =
                           IF current # None
                           THEN Append(sections,
                                       finalize_section(section_title_map, current[1]))
                           ELSE sections
                    /\ section_title_map' =
                           title_map_set(section_title_map, number, full_name)
                    /\ current' = Some([number |-> number,
                                        title |-> title,
                                        full_name |-> full_name,
                                        page_number |-> page_number,
                                        lines |-> <<line>>])
           ELSE IF current # None
           THEN /\ current' = Some([current[1] EXCEPT !.lines = Append(@, line)])
                /\ UNCHANGED <<sections, section_title_map>>
           ELSE UNCHANGED <<sections, current, section_title_map>>
    /\ UNCHANGED <<pc, page_number, output, process, other, call>>

\* Fault injection for C22: the emitted sections keep a reference to the title map,
\* so a header read later shows up in the trees of the sections emitted before it.
parse_line_backfill_trees(line) ==
    /\ pc = "loop"
    /\ stream' = Append(stream, [page_number |-> page_number, line |-> line])
    /\ LET match == SECTION_PATTERN_match(line)
       IN  IF match # None
           THEN LET number == match[1].number
                    title == match[1].title
                    full_name == number \o <<" ">> \o title
                    emitted == IF current # None
                               THEN Append(sections,
                                           finalize_section(section_title_map, current[1]))
                               ELSE sections
                IN  /\ section_title_map' =
                           title_map_set(section_title_map, number, full_name)
                    /\ sections' =
                           [i \in DOMAIN emitted |->
                               [emitted[i] EXCEPT !.hierarchy_tree.ancestors =
                                   ancestors_loop(
                                       section_title_map',
                                       split_dot(SECTION_PATTERN_match(
                                                     emitted[i].hierarchy)[1].number),
                                       1)]]
                    /\ current' = Some([number |-> number,
                                        title |-> title,
                                        full_name |-> full_name,
                                        page_number |-> page_number,
                                        lines |-> <<>>])
           ELSE IF current # None
           THEN /\ current' = Some([current[1] EXCEPT !.lines = Append(@, line)])
                /\ UNCHANGED <<sections, section_title_map>>
           ELSE UNCHANGED <<sections, current, section_title_map>>
    /\ UNCHANGED <<pc, page_number, output, process, other, call>>

\* one iteration of `for line in lines`
parse_line(line) ==
    /\ pc = "loop"
    /\ stream' = Append(stream, [page_number |-> page_number, line |-> line])
    /\ LET match == SECTION_PATTERN_match(line)
       IN  IF match # None
           THEN LET number == match[1].number
                    title == match[1].title
                    full_name == number \o <<" ">> \o title
                IN  /\ sections' =
                           IF current # None
                           THEN Append(sections,
                                       finalize_section(section_title_map, current[1]))
                           ELSE sections
                    /\ section_title_map' =
                           title_map_set(section_title_map, number, full_name)
                    /\ current' = Some([number |-> number,
                                        title |-> title,
                                        full_name |-> full_name,
                                        page_number |-> page_number,
                                        lines |-> <<>>])
           ELSE IF current # None
           THEN /\ current' = Some([current[1] EXCEPT !.lines = Append(@, line)])
                /\ UNCHANGED <<sections, section_title_map>>
           ELSE UNCHANGED <<sections, current, section_title_map>>
    /\ UNCHANGED <<pc, page_number, output, process, other, call>>

\* `for page in pages` moves on to the next page
next_page ==
    /\ pc = "loop"
    /\ page_number < MaxPage
    /\ page_number' = page_number + 1
    /\ UNCHANGED <<pc, stream, sections, current, section_title_map, output, process, other,
                   call>>

\* Fault injection for C7: parse returns without finalizing the open section.
end_of_stream_no_finalize ==
    /\ pc = "loop"
    /\ pc' = "done"
    /\ UNCHANGED <<page_number, stream, sections, current, section_title_map, output,
                   process, other, call>>

\* Fault injection for C17: the end of the stream takes an open section for granted
\* and raises when no header was read.
end_of_stream_raise_without_section ==
    /\ pc = "loop"
    /\ pc' = IF current = None THEN "error" ELSE "done"
    /\ sections' = IF current # None
                   THEN Append(sections, finalize_section(section_title_map, current[1]))
                   ELSE sections
    /\ UNCHANGED <<page_number, stream, current, section_title_map, output, process, other,
                   call>>

\* the pages are exhausted: the open section is finalized and parse returns
end_of_stream ==
    /\ pc = "loop"
    /\ pc' = "done"
    /\ sections' = IF current # None
                   THEN Append(sections, finalize_section(section_title_map, current[1]))
                   ELSE sections
    /\ UNCHANGED <<page_number, stream, current, section_title_map, output, process, other,
                   call>>

\* the documents explored have at most MaxLines lines
MoreLines == Len(stream) < MaxLines

(***************************************************************************)
(* parse as a function of a parser instance `self`: a record of the        *)
(* instance's title map and of the position, the locals and the lines      *)
(* read by its parse.  The second instance, `other`, takes its steps       *)
(* through it.                                                             *)
(***************************************************************************)
\* Fault injection for C20: finalizing a section takes its entry out of the title map.
parse_return_pop_title(self) ==
    IF self.current # None
    THEN [self EXCEPT
            !.pc = "done",
            !.sections = Append(@, finalize_section(self.section_title_map,
                                                    self.current[1])),
            !.section_title_map =
                [k \in (DOMAIN self.section_title_map) \ {self.current[1].number} |->
                    self.section_title_map[k]]]
    ELSE [self EXCEPT !.pc = "done"]

\* the pages are exhausted: the open section is finalized and parse returns
parse_return(self) ==
    IF self.current # None
    THEN [self EXCEPT
            !.pc = "done",
            !.sections = Append(@, finalize_section(self.section_title_map,
                                                    self.current[1]))]
    ELSE [self EXCEPT !.pc = "done"]

\* one iteration of `for line in lines`
parse_loop_body(self, line) ==
    LET match == SECTION_PATTERN_match(line)
        read == Append(self.stream, [page_number |-> self.page_number, line |-> line])
    IN  IF match # None
        THEN LET number == match[1].number
                 title == match[1].title
                 full_name == number \o <<" ">> \o title
             IN  [self EXCEPT
                    !.stream = read,
                    !.sections =
                        IF self.current # None
                        THEN Append(@, finalize_section(self.section_title_map,
                                                        self.current[1]))
                        ELSE @,
                    !.section_title_map = title_map_set(@, number, full_name),
                    !.current = Some([number |-> number,
                                      title |-> title,
                                      full_name |-> full_name,
                                      page_number |-> self.page_number,
                                      lines |-> <<>>])]
        ELSE IF self.current # None
        THEN [self EXCEPT
                !.stream = read,
                !.current = Some([@[1] EXCEPT !.lines = Append(@, line)])]
        ELSE [self EXCEPT !.stream = read]

\* parse of a fresh instance over the first n lines of a document, up to its loops' end
RECURSIVE parse_prefix(_, _)
parse_prefix(document, n) ==
    IF n = 0 THEN fresh_instance
    ELSE parse_loop_body([parse_prefix(document, n - 1) EXCEPT
                             !.page_number = document[n].page_number],
                         document[n].line)

\* parse of a fresh instance that reads a document on its own
parse_alone(document) == parse_return(parse_prefix(document, Len(document)))

\* parse called on an instance whose title map is title_map, over the first n lines of
\* a document: the locals start afresh (lines 195-196), the title map does not
RECURSIVE parse_again_prefix(_, _, _)
parse_again_prefix(title_map, document, n) ==
    IF n = 0 THEN [fresh_instance EXCEPT !.section_title_map = title_map]
    ELSE parse_loop_body([parse_again_prefix(title_map, document, n - 1) EXCEPT
                             !.page_number = document[n].page_number],
                         document[n].line)

\* parse called on such an instance over a whole document, up to its return
parse_again(title_map, document) ==
    parse_return(parse_again_prefix(title_map, document, Len(document)))

\* the caller calls parse a second time on the same instance, over the same pages; it
\* still holds the list the first call returned
parse_second_call ==
    /\ pc = "done"
    /\ pc' = "done_again"
    /\ LET self == parse_again(section_title_map, stream)
       IN  /\ call' = [function |-> "parse", result |-> Some(self.sections)]
           /\ section_title_map' = self.section_title_map
    /\ UNCHANGED <<page_number, stream, sections, current, output, process, other>>

\* Fault injection for C19: the title map is an attribute of the class, so the second
\* instance reads and writes the map of the first.
other_parse_line_shared_map(line) ==
    /\ other.pc = "loop"
    /\ LET shared == parse_loop_body([other EXCEPT
                                         !.section_title_map = section_title_map], line)
       IN  /\ other' = shared
           /\ section_title_map' = shared.section_title_map
    /\ UNCHANGED <<pc, page_number, stream, sections, current, output, process, call>>

\* the second instance reads a line of its document
other_parse_line(line) ==
    /\ other.pc = "loop"
    /\ other' = parse_loop_body(other, line)
    /\ UNCHANGED <<pc, page_number, stream, sections, current, section_title_map, output,
                   process, call>>

\* the document of the second instance is exhausted
other_end_of_stream ==
    /\ other.pc = "loop"
    /\ other' = parse_return(other)
    /\ UNCHANGED <<pc, page_number, stream, sections, current, section_title_map, output,
                   process, call>>

(***************************************************************************)
(* to_json and main of the nested parser.  main is at "main" before it     *)
(* constructs the parser and at "exit" when the command has ended.         *)
(***************************************************************************)
\* the data to_json builds from the sections and writes to the output path
to_json(secs) ==
    [i \in DOMAIN secs |->
        [id |-> secs[i].id,
         hierarchy |-> secs[i].hierarchy,
         hierarchyTree |-> secs[i].hierarchy_tree,
         pageNumber |-> secs[i].page_number,
         requirements |->
             [n \in DOMAIN secs[i].requirements |->
                 LET r == secs[i].requirements[n]
                 IN  [requirementId |-> r.requirement_id,
                      shallText |-> r.shall_text,
                      anchor |-> r.anchor,
                      context |-> [before |-> r.context_before,
                                   after |-> r.context_after],
                      sectionHierarchy |-> r.hierarchy,
                      parentHierarchy |-> r.parent_hierarchy,
                      pageNumber |-> r.page_number]],
         metadata |-> secs[i].metadata,
         rawContent |-> secs[i].raw_content]]

\* the command starts: nothing is constructed, read or written yet
InitMain ==
    /\ pc = "main"
    /\ page_number = 1
    /\ stream = <<>>
    /\ sections = <<>>
    /\ current = None
    /\ section_title_map = <<>>
    /\ output = <<>>
    /\ process \in [argc : {1, 2, 3}, path_exists : BOOLEAN, constructed : {FALSE},
                    output_file : {None}, exit_status : {None}]
    /\ other = fresh_instance
    /\ call = None

\* main without an input path: the usage line is printed and main returns
main_usage ==
    /\ pc = "main"
    /\ process.argc < 2
    /\ pc' = "exit"
    /\ process' = [process EXCEPT !.exit_status = Some(0)]
    /\ UNCHANGED <<page_number, stream, sections, current, section_title_map, output,
                   other, call>>

\* Fault injection for C18: the constructor does not look at the path, which is
\* opened only when the pages are read.
main_construct_unchecked ==
    /\ pc = "main"
    /\ process.argc >= 2
    /\ pc' = "loop"
    /\ process' = [process EXCEPT !.constructed = TRUE]
    /\ section_title_map' = <<>>
    /\ UNCHANGED <<page_number, stream, sections, current, output, other, call>>

\* parser = OCPSpecificationParser(sys.argv[1]): __init__ raises FileNotFoundError
\* when the path does not exist, before it creates the title map; main does not
\* catch it, so the interpreter ends the command with status 1
main_construct ==
    /\ pc = "main"
    /\ process.argc >= 2
    /\ IF ~process.path_exists
       THEN /\ pc' = "exit"
            /\ process' = [process EXCEPT !.exit_status = Some(1)]
            /\ UNCHANGED section_title_map
       ELSE /\ pc' = "loop"
            /\ process' = [process EXCEPT !.constructed = TRUE]
            /\ section_title_map' = <<>>
    /\ UNCHANGED <<page_number, stream, sections, current, output, other, call>>

\* parser.to_json(sections, output) and the end of main
main_to_json ==
    /\ pc = "done"
    /\ process.exit_status = None
    /\ pc' = "exit"
    /\ process' = [process EXCEPT !.output_file = Some(to_json(sections)),
                                  !.exit_status = Some(0)]
    /\ UNCHANGED <<page_number, stream, sections, current, section_title_map, output,
                   other, call>>

Next ==
    \/ \E line \in SegLines : MoreLines /\ parse_line(line)
    \/ next_page
    \/ end_of_stream

Spec == Init /\ [][Next]_vars

\* the command as a whole, on one-page documents
NextMain ==
    \/ main_usage
    \/ main_construct
    \/ \E line \in SegLines : MoreLines /\ parse_line(line)
    \/ end_of_stream
    \/ main_to_json

SpecMain == InitMain /\ [][NextMain]_vars

\* two parser instances, each on a document of its own, their steps interleaved; the
\* first goes on to write its output
NextPair ==
    \/ \E line \in PairLines : Len(stream) < MaxLinesEach /\ parse_line(line)
    \/ end_of_stream
    \/ main_to_json
    \/ \E line \in PairLines : Len(other.stream) < MaxLinesEach /\ other_parse_line(line)
    \/ other_end_of_stream

SpecPair == Init /\ [][NextPair]_vars

NextHier ==
    \/ \E line \in HierLines : MoreLines /\ parse_line(line)
    \/ end_of_stream

SpecHier == Init /\ [][NextHier]_vars

NextReq ==
    \/ \E line \in ReqLines : MoreLines /\ parse_line(line)
    \/ end_of_stream

SpecReq == Init /\ [][NextReq]_vars

NextShall ==
    \/ \E line \in ShallLines : MoreLines /\ parse_line(line)
    \/ end_of_stream

SpecShall == Init /\ [][NextShall]_vars

NextEndToEnd ==
    \/ \E line \in EndToEndLines : Len(stream) < MaxLinesEndToEnd /\ parse_line(line)
    \/ end_of_stream

SpecEndToEnd == Init /\ [][NextEndToEnd]_vars

\* one-page documents parsed twice by the same instance
NextAgain ==
    \/ \E line \in SegLines : MoreLines /\ parse_line(line)
    \/ end_of_stream
    \/ parse_second_call

SpecAgain == Init /\ [][NextAgain]_vars

(***************************************************************************)
(* parse of the flattened parser (src/ocp_parser.py).  Its positions are   *)
(* "flat_loop" and "flat_done"; it keeps the records in `output`.          *)
(***************************************************************************)
\* the state after __init__ of the flattened parser, when parse enters its loops
InitFlat ==
    /\ pc = "flat_loop"
    /\ page_number = 1
    /\ stream = <<>>
    /\ sections = <<>>
    /\ current = None
    /\ section_title_map = <<>>
    /\ output = <<>>
    /\ process = [argc |-> 2, path_exists |-> TRUE, constructed |-> TRUE,
                  output_file |-> None, exit_status |-> None]
    /\ other = fresh_instance
    /\ call = None

\* one iteration of `for idx, line in enumerate(lines)`
flat_parse_line(line) ==
    /\ pc = "flat_loop"
    /\ stream' = Append(stream, [page_number |-> page_number, line |-> line])
    /\ LET match == SECTION_PATTERN_match(line)
       IN  IF match # None
           THEN LET number == match[1].number
                    title == match[1].title
                    full_name == number \o <<" ">> \o title
                IN  /\ output' =
                           IF current # None
                           THEN output \o flat_finalize_section(section_title_map,
                                                                current[1])
                           ELSE output
                    /\ section_title_map' =
                           title_map_set(section_title_map, number, full_name)
                    /\ current' = Some([number |-> number,
                                        hierarchy |-> full_name,
                                        page_number |-> page_number,
                                        lines |-> <<>>])
           ELSE IF current # None
           THEN /\ current' = Some([current[1] EXCEPT !.lines = Append(@, line)])
                /\ UNCHANGED <<output, section_title_map>>
           ELSE UNCHANGED <<output, current, section_title_map>>
    /\ UNCHANGED <<pc, page_number, sections, process, other, call>>

\* the pages are exhausted: the open section is finalized and parse returns
flat_end_of_stream ==
    /\ pc = "flat_loop"
    /\ pc' = "flat_done"
    /\ output' = IF current # None
                 THEN output \o flat_finalize_section(section_title_map, current[1])
                 ELSE output
    /\ UNCHANGED <<page_number, stream, sections, current, section_title_map, process,
                   other, call>>

\* both record shapes: the nested parser or the flattened parser reads a document
InitShapes == Init \/ InitFlat

NextShapes ==
    \/ \E line \in SegLines : MoreLines /\ parse_line(line)
    \/ end_of_stream
    \/ \E line \in SegLines : MoreLines /\ flat_parse_line(line)
    \/ flat_end_of_stream

SpecShapes == InitShapes /\ [][NextShapes]_vars

\* both parsers on documents with lines that start or end with whitespace
NextVerbatim ==
    \/ \E line \in VerbatimLines : MoreLines /\ parse_line(line)
    \/ end_of_stream
    \/ \E line \in VerbatimLines : MoreLines /\ flat_parse_line(line)
    \/ flat_end_of_stream

SpecVerbatim == InitShapes /\ [][NextVerbatim]_vars

\* either parser on arbitrary documents; parse is straight-line code inside loops over
\* finite lists, so it keeps taking steps until it returns
NextTotal ==
    \/ \E line \in TotalLines : MoreLines /\ parse_line(line)
    \/ end_of_stream
    \/ \E line \in TotalLines : MoreLines /\ flat_parse_line(line)
    \/ flat_end_of_stream

SpecTotal == InitShapes /\ [][NextTotal]_vars /\ WF_vars(NextTotal)

(***************************************************************************)
(* build_hierarchy_tree of the numeric-hierarchy variants (src/OCP_parser.py *)
(* and src/OCP_parser_2.py, the same code): the tree holds section numbers *)
(* and is computed from the number alone.  A call is at "call" before the  *)
(* function runs and at "return" after it.                                 *)
(***************************************************************************)
\* Fault injection for C25: the ancestors are looked up in a title map, as in the
\* named-hierarchy variants, and only the prefixes found there are kept.
numeric_build_hierarchy_tree_known_only(hierarchy) ==
    LET parts == split_dot(hierarchy)
        ancestors == ancestors_loop(section_title_map, parts, 1)
    IN  [current |-> hierarchy,
         parent |-> IF ancestors # <<>> THEN Some(Last(ancestors)) ELSE None,
         grandparent |-> IF Len(ancestors) >= 2
                         THEN Some(ancestors[Len(ancestors) - 1]) ELSE None,
         ancestors |-> ancestors]

numeric_build_hierarchy_tree(hierarchy) ==
    LET parts == split_dot(hierarchy)
        \* [".".join(parts[:i + 1]) for i in range(len(parts) - 1)]
        ancestors == [i \in 1..(Len(parts) - 1) |-> join_dot(SubSeq(parts, 1, i))]
    IN  [current |-> hierarchy,
         parent |-> IF Len(parts) > 1
                    THEN Some(join_dot(SubSeq(parts, 1, Len(parts) - 1))) ELSE None,
         grandparent |-> IF Len(parts) > 2
                         THEN Some(join_dot(SubSeq(parts, 1, Len(parts) - 2))) ELSE None,
         ancestors |-> ancestors]

\* the digit groups of the section numbers the function is called with
IdDigits == {"1", "2", "3"}

\* the section numbers of n components
RECURSIVE IdsOfLength(_)
IdsOfLength(n) ==
    IF n = 1 THEN {<<d>> : d \in IdDigits}
    ELSE {id \o <<".", d>> : id \in IdsOfLength(n - 1), d \in IdDigits}

NumericIds == UNION {IdsOfLength(n) : n \in 1..MaxComponents}

\* _finalize_section is about to call build_hierarchy_tree with a section number
InitNumeric ==
    /\ pc = "call"
    /\ page_number = 1
    /\ stream = <<>>
    /\ sections = <<>>
    /\ current = None
    /\ section_title_map = <<>>
    /\ output = <<>>
    /\ process = [argc |-> 2, path_exists |-> TRUE, constructed |-> TRUE,
                  output_file |-> None, exit_status |-> None]
    /\ other = fresh_instance
    /\ call \in {[function |-> "build_hierarchy_tree", hierarchy |-> id, result |-> None] :
                    id \in NumericIds}

\* hierarchy_tree = self.build_hierarchy_tree(hierarchy)
numeric_call ==
    /\ pc = "call"
    /\ call.function = "build_hierarchy_tree"
    /\ pc' = "return"
    /\ call' = [call EXCEPT !.result = Some(numeric_build_hierarchy_tree(call.hierarchy))]
    /\ UNCHANGED <<page_number, stream, sections, current, section_title_map, output,
                   process, other>>

NextNumeric == numeric_call

SpecNumeric == InitNumeric /\ [][NextNumeric]_vars

(***************************************************************************)
(* The table-of-contents variant (src/test.py).  extract_OCP_requirements  *)
(* builds the index of the document's table of contents once and resolves  *)
(* the section of a page from it.  `call` holds the entries of the table   *)
(* read so far (toc), the locals active_levels and toc_index of            *)
(* build_toc_index, and the page and the result of resolve_section.  A     *)
(* Python dict keeps its keys in insertion order: active_levels is the     *)
(* sequence of its items in that order.  The positions are "toc_loop"      *)
(* inside the loop of build_toc_index, "toc_done" when it has returned     *)
(* and "resolved" when resolve_section has returned.                       *)
(***************************************************************************)
General == <<"General">>

\* the levels, titles and pages of the entries of the explored tables of contents
TocLevels == {1, 2, 3}

TocTitles == {<<"Intro">>, <<"Power">>}

TocPages == {1, 3}

\* the pages whose section is resolved
ResolvedPages == {1, 2, 3}

\* active_levels[level] = title: a key that is present keeps its place
active_levels_set(active_levels, level, title) ==
    IF \E i \in DOMAIN active_levels : active_levels[i].level = level
    THEN [i \in DOMAIN active_levels |->
             IF active_levels[i].level = level
             THEN [level |-> level, title |-> title] ELSE active_levels[i]]
    ELSE Append(active_levels, [level |-> level, title |-> title])

\* Fault injection for C29: the deeper levels are not removed.
remove_deeper_none(active_levels, level) == active_levels

\* for l in list(active_levels.keys()): if l > level: del active_levels[l]
remove_deeper(active_levels, level) ==
    SelectSeq(active_levels, LAMBDA item : ~(item.level > level))

\* list(active_levels.values())
dict_values(active_levels) == [i \in DOMAIN active_levels |-> active_levels[i].title]

\* Fault injection for C30: the loop goes on after an entry of a later page.
RECURSIVE resolve_loop_no_break(_, _, _, _)
resolve_loop_no_break(toc_index, i, page, entry) ==
    IF i > Len(toc_index) THEN entry
    ELSE IF toc_index[i].page <= page
    THEN resolve_loop_no_break(toc_index, i + 1, page, toc_index[i])
    ELSE resolve_loop_no_break(toc_index, i + 1, page, entry)

\* for entry in toc_index, from the i-th entry on, with `current` as it is so far
RECURSIVE resolve_loop(_, _, _, _)
resolve_loop(toc_index, i, page, entry) ==
    IF i > Len(toc_index) THEN entry
    ELSE IF toc_index[i].page <= page
    THEN resolve_loop(toc_index, i + 1, page, toc_index[i])
    ELSE entry

\* resolve_section(toc_index, page_number)
resolve_section(toc_index, page) ==
    LET entry == resolve_loop(toc_index, 1, page,
                              [hierarchy |-> General, hierarchy_tree |-> <<General>>])
    IN  <<entry.hierarchy, entry.hierarchy_tree>>

\* build_toc_index is about to enter its loop
InitToc ==
    /\ pc = "toc_loop"
    /\ page_number = 1
    /\ stream = <<>>
    /\ sections = <<>>
    /\ current = None
    /\ section_title_map = <<>>
    /\ output = <<>>
    /\ process = [argc |-> 2, path_exists |-> TRUE, constructed |-> TRUE,
                  output_file |-> None, exit_status |-> None]
    /\ other = fresh_instance
    /\ call = [function |-> "extract_OCP_requirements", toc |-> <<>>,
               active_levels |-> <<>>, toc_index |-> <<>>,
               page_number |-> None, resolved |-> None]

\* one iteration of `for level, title, page in toc`
toc_entry(level, title, page) ==
    /\ pc = "toc_loop"
    /\ LET active_levels ==
               remove_deeper(active_levels_set(call.active_levels, level, title), level)
       IN  call' = [call EXCEPT
                       !.toc = Append(@, [level |-> level, title |-> title,
                                          page |-> page]),
                       !.active_levels = active_levels,
                       !.toc_index = Append(@, [page |-> page,
                                                hierarchy |-> title,
                                                hierarchy_tree |->
                                                    dict_values(active_levels)])]
    /\ UNCHANGED <<pc, page_number, stream, sections, current, section_title_map, output,
                   process, other>>

\* the table of contents is exhausted: build_toc_index returns toc_index
toc_return ==
    /\ pc = "toc_loop"
    /\ pc' = "toc_done"
    /\ UNCHANGED <<page_number, stream, sections, current, section_title_map, output,
                   process, other, call>>

\* section_name, hierarchy_tree = resolve_section(toc_index, page_index + 1)
resolve_section_call(p) ==
    /\ pc = "toc_done"
    /\ pc' = "resolved"
    /\ call' = [call EXCEPT !.page_number = Some(p),
                            !.resolved = Some(resolve_section(call.toc_index, p))]
    /\ UNCHANGED <<page_number, stream, sections, current, section_title_map, output,
                   process, other>>

NextToc ==
    \/ \E level \in TocLevels, title \in TocTitles, page \in TocPages :
           Len(call.toc) < MaxToc /\ toc_entry(level, title, page)
    \/ toc_return
    \/ \E p \in ResolvedPages : resolve_section_call(p)

SpecToc == InitToc /\ [][NextToc]_vars

(***************************************************************************)
(* What the stream read so far says about the sections: the positions of   *)
(* its header lines and the lines that lie between two headers.            *)
(***************************************************************************)
IsHeader(line) == SECTION_PATTERN_match(line) # None

\* the positions of the header lines of the stream from position j on, in order
RECURSIVE HeaderSeqFrom(_)
HeaderSeqFrom(j) ==
    IF j > Len(stream) THEN <<>>
    ELSE (IF IsHeader(stream[j].line) THEN <<j>> ELSE <<>>) \o HeaderSeqFrom(j + 1)

HeaderSeq == HeaderSeqFrom(1)

HeaderPositions == Range(HeaderSeq)

NumHeaders == Len(HeaderSeq)

\* the position in the stream of the i-th header line
NthHeader(i) == HeaderSeq[i]

\* the number and the full name a header line states
HeaderNumber(line) == SECTION_PATTERN_match(line)[1].number

HeaderFullName(line) ==
    HeaderNumber(line) \o <<" ">> \o SECTION_PATTERN_match(line)[1].title

\* the last position of the stream that belongs to the i-th section
SectionEnd(i) == IF i < NumHeaders THEN NthHeader(i + 1) - 1 ELSE Len(stream)

\* the lines of the stream between the i-th header and the next one
ExpectedLines(i) ==
    [k \in 1..(SectionEnd(i) - NthHeader(i)) |-> stream[NthHeader(i) + k].line]

\* the strict prefixes of a section number that end before one of its dots
StrictPrefixes(number) ==
    {SubSeq(number, 1, m) : m \in {n \in 1..(Len(number) - 1) : number[n + 1] = "."}}

\* the number of the i-th section of the stream
NthNumber(i) == HeaderNumber(stream[NthHeader(i)].line)

\* the full name stated by the first header of the stream whose number is k
FirstFullName(k) ==
    LET first == CHOOSE j \in HeaderPositions :
                    /\ HeaderNumber(stream[j].line) = k
                    /\ \A h \in HeaderPositions :
                          HeaderNumber(stream[h].line) = k => j <= h
    IN  HeaderFullName(stream[first].line)

(***************************************************************************)
(* C1.  The title map entry of a section id is written once: when a header *)
(* with an id that is already a key appears again, the stored full name    *)
(* stays that of the first occurrence, and every ancestor a later section  *)
(* resolves is the first occurrence's full name of one of its prefixes.    *)
(* parse assigns section_title_map[number] at every header, so a second    *)
(* header with the same number replaces the name: the statement fails.     *)
(***************************************************************************)
C1_FirstOccurrenceWins ==
    /\ \A k \in DOMAIN section_title_map : section_title_map[k] = FirstFullName(k)
    /\ \A i \in DOMAIN sections :
          \A a \in Range(sections[i].hierarchy_tree.ancestors) :
              \E p \in StrictPrefixes(NthNumber(i)) :
                  p \in DOMAIN section_title_map /\ a = FirstFullName(p)

(***************************************************************************)
(* C2.  For every section id and every title map the parser can hold,      *)
(* build_hierarchy_tree returns as ancestors the full names stored for the *)
(* strict prefixes of the id that are keys of the map, in increasing       *)
(* prefix length and nothing else (a prefix that is no key is left out);   *)
(* parent is the last ancestor or absent, grandparent the one before the   *)
(* last or absent.                                                         *)
(***************************************************************************)
ProbeIds ==
    {<<"3">>, <<"3", ".", "2">>, <<"3", ".", "2", ".", "1">>,
     <<"3", ".", "2", ".", "1", ".", "1">>,
     <<"3", ".", "2", ".", "1", ".", "1", ".", "4">>,
     <<"3", ".", "1">>, <<"3", ".", "1", ".", "2">>, <<"2", ".", "1">>,
     <<"3", ".", "2", ".", "2", ".", "1">>}

\* the lengths, in tokens, of the strict prefixes of id that are keys of title_map
KeyPrefixLengths(title_map, id) ==
    {m \in 1..(Len(id) - 1) : id[m + 1] = "." /\ SubSeq(id, 1, m) \in DOMAIN title_map}

\* the k-th smallest element of a set of numbers
KthSmallest(S, k) == CHOOSE m \in S : Cardinality({n \in S : n < m}) = k - 1

C2_ResolveKeepsOnlyKeyPrefixes ==
    \A id \in ProbeIds :
        LET tree == build_hierarchy_tree(section_title_map, id)
            hits == KeyPrefixLengths(section_title_map, id)
            anc == tree.ancestors
        IN  /\ Len(anc) = Cardinality(hits)
            /\ \A k \in DOMAIN anc :
                  anc[k] = section_title_map[SubSeq(id, 1, KthSmallest(hits, k))]
            /\ tree.parent = IF anc = <<>> THEN None ELSE Some(anc[Len(anc)])
            /\ tree.grandparent =
                  IF Len(anc) < 2 THEN None ELSE Some(anc[Len(anc) - 1])

\* the example of the specification: 3.2.1 resolved with 3 and 3.2 as keys
C2_Witness ==
    \E i \in DOMAIN sections :
        /\ sections[i].hierarchy = H321Leaf
        /\ sections[i].hierarchy_tree.ancestors = <<H3Intro, H32Power>>
        /\ sections[i].hierarchy_tree.parent = Some(H32Power)
        /\ sections[i].hierarchy_tree.grandparent = Some(H3Intro)

(***************************************************************************)
(* C3.  For a fresh parser, every ancestor, the parent and the grandparent *)
(* of an emitted section are full names of headers that stand in the       *)
(* stream before the section's own header: a header that comes later, the  *)
(* one that closes the section included, is never in its hierarchy tree.   *)
(***************************************************************************)
NamesEarlierHeader(i, name) ==
    \E j \in HeaderPositions :
        j < NthHeader(i) /\ HeaderFullName(stream[j].line) = name

C3_NoLookaheadNoBackfill ==
    \A i \in DOMAIN sections :
        LET tree == sections[i].hierarchy_tree
        IN  /\ \A a \in Range(tree.ancestors) : NamesEarlierHeader(i, a)
            /\ tree.parent # None => NamesEarlierHeader(i, tree.parent[1])
            /\ tree.grandparent # None => NamesEarlierHeader(i, tree.grandparent[1])

\* a section was emitted without an ancestor although the header of one of its
\* prefixes has been read since (it came after the section's own header)
C3_Witness ==
    \E i \in DOMAIN sections :
        /\ sections[i].hierarchy_tree.ancestors = <<>>
        /\ \E p \in StrictPrefixes(NthNumber(i)) : p \in DOMAIN section_title_map

(***************************************************************************)
(* C4.  Each line that matches the header pattern finalizes exactly one    *)
(* open section (none when it is the first header) and opens exactly one   *)
(* new section, and no other line emits or opens a section; so the number  *)
(* of emitted sections is the number of header lines read, less the one    *)
(* section still open while parse is in its loop, and the sections are     *)
(* emitted in the order of their headers.                                  *)
(***************************************************************************)
C4_Step ==
    stream' # stream =>
        LET line == Last(stream').line
        IN  IF IsHeader(line)
            THEN /\ Len(sections') = Len(sections) + (IF current # None THEN 1 ELSE 0)
                 /\ SubSeq(sections', 1, Len(sections)) = sections
                 /\ current # None =>
                       Last(sections').hierarchy = current[1].full_name
                 /\ current' # None
                 /\ current'[1].number = HeaderNumber(line)
                 /\ current'[1].lines = <<>>
            ELSE /\ sections' = sections
                 /\ (current' = None) <=> (current = None)

C4_Counts ==
    /\ Len(sections) =
          NumHeaders - (IF pc = "loop" /\ NumHeaders > 0 THEN 1 ELSE 0)
    /\ \A i \in DOMAIN sections :
          sections[i].hierarchy = HeaderFullName(stream[NthHeader(i)].line)

C4_HeaderClosesOneOpensOne == [](C4_Counts) /\ [][C4_Step]_vars

\* parse has returned three sections for a stream of three headers and a content line
C4_Witness ==
    /\ pc = "done"
    /\ NumHeaders = 3
    /\ Len(stream) = 4
    /\ Len(sections) = 3

(***************************************************************************)
(* C5.  The content of an emitted section is the sequence of the lines     *)
(* that stand between its header and the next header (or the end of the    *)
(* stream), in stream order, whatever page they come from; neither a       *)
(* header line nor a line of another section is part of it.  The same      *)
(* holds of the lines gathered so far for the open section.                *)
(***************************************************************************)
C5_ContentIsLinesBetweenHeaders ==
    /\ \A i \in DOMAIN sections :
          sections[i].raw_content = join_newline(ExpectedLines(i))
    /\ (pc = "loop" /\ current # None) =>
          current[1].lines = ExpectedLines(NumHeaders)

\* an emitted section holds, in order, a line of its header's page and a line of
\* the next page
C5_Witness ==
    \E i \in DOMAIN sections :
        /\ sections[i].raw_content = LineA \o <<"\n">> \o LineShall
        /\ stream[NthHeader(i)].page_number < stream[SectionEnd(i)].page_number

(***************************************************************************)
(* C6.  Every line read before the first header is discarded: while no     *)
(* header has been read, reading a line leaves the output, the open        *)
(* section and the title map as they are (all empty), so a stream without  *)
(* header yields an empty output; and the requirements parse returns are   *)
(* as many as the shall-lines that stand after the first header, so a      *)
(* shall-line of the preamble yields none.                                 *)
(***************************************************************************)
RECURSIVE CountRequirements(_)
CountRequirements(secs) ==
    IF secs = <<>> THEN 0
    ELSE Len(Head(secs).requirements) + CountRequirements(Tail(secs))

\* the positions of the shall-lines that are content of some section
ShallContentPositions ==
    IF NumHeaders = 0 THEN {}
    ELSE {j \in (NthHeader(1) + 1)..Len(stream) :
             ~IsHeader(stream[j].line) /\ SHALL_PATTERN_search(stream[j].line)}

C6_State ==
    /\ NumHeaders = 0 =>
          sections = <<>> /\ current = None /\ section_title_map = <<>>
    /\ pc = "done" => CountRequirements(sections) = Cardinality(ShallContentPositions)

C6_Step ==
    (stream' # stream /\ NumHeaders = 0 /\ ~IsHeader(Last(stream').line)) =>
        UNCHANGED <<sections, current, section_title_map>>

C6_PreambleDiscarded == [](C6_State) /\ [][C6_Step]_vars

\* parse has returned a section without requirement for a stream that starts with
\* a shall-line
C6_Witness ==
    /\ pc = "done"
    /\ Len(stream) >= 2
    /\ stream[1].line = LineShall
    /\ IsHeader(stream[2].line)
    /\ sections # <<>>
    /\ CountRequirements(sections) = 0

(***************************************************************************)
(* C7.  When the stream ends with a section still open, that section is    *)
(* finalized and emitted: once parse has returned, the emitted sections    *)
(* are the sections opened by the header lines of the stream, one for one  *)
(* and in order, each with the title and the page of its header, none      *)
(* dropped and none emitted twice.                                         *)
(***************************************************************************)
C7_EveryOpenedSectionEmittedOnce ==
    pc = "done" =>
        /\ Len(sections) = NumHeaders
        /\ \A i \in 1..NumHeaders :
              LET h == stream[NthHeader(i)]
              IN  /\ sections[i].hierarchy = HeaderFullName(h.line)
                  /\ sections[i].title = SECTION_PATTERN_match(h.line)[1].title
                  /\ sections[i].page_number = h.page_number
                  /\ sections[i].id = section_id_token(HeaderNumber(h.line))

\* the stream ended inside the second section, which was emitted with its content
C7_Witness ==
    /\ pc = "done"
    /\ NumHeaders = 2
    /\ ~IsHeader(Last(stream).line)
    /\ Len(sections) = 2
    /\ sections[2].raw_content = Last(stream).line

(***************************************************************************)
(* What the stream says about the requirements of the i-th section: the    *)
(* positions of the shall-lines in its content and the nearest non-blank   *)
(* lines around a position.                                                *)
(***************************************************************************)
ShallIndexes(lines) == {k \in DOMAIN lines : SHALL_PATTERN_search(lines[k])}

NonBlank(line) == \E t \in DOMAIN line : ~IsSpace(line[t])

Max(S) == CHOOSE m \in S : \A n \in S : n <= m

Min(S) == CHOOSE m \in S : \A n \in S : m <= n

NonBlankBelow(lines, k) == {j \in 1..(k - 1) : NonBlank(lines[j])}

NonBlankAbove(lines, k) == {j \in (k + 1)..Len(lines) : NonBlank(lines[j])}

\* the positions of a line at which a match of the anchor pattern starts
AnchorStarts(line) == {i \in DOMAIN line : AnchorEndAt(line, i) # 0}

\* the leftmost anchor of a line, None when it has none
FirstAnchor(line) ==
    IF AnchorStarts(line) = {} THEN None
    ELSE LET i == Min(AnchorStarts(line))
         IN  Some(SubSeq(line, i, AnchorEndAt(line, i)))

(***************************************************************************)
(* C8.  For the requirement taken from content line k of a section,        *)
(* context_before is the nearest line below k whose trimmed text is not    *)
(* blank and context_after the nearest such line above k, each absent      *)
(* when there is none: at most one line each, and both lines of the same   *)
(* section's content, never the header line or a line of a neighbouring    *)
(* section.                                                                *)
(***************************************************************************)
C8_ContextIsNearestNonBlankLine ==
    \A i \in DOMAIN sections :
        LET lines == ExpectedLines(i)
            shall == ShallIndexes(lines)
            reqs == sections[i].requirements
        IN  /\ Len(reqs) = Cardinality(shall)
            /\ \A n \in DOMAIN reqs :
                  LET k == KthSmallest(shall, n)
                      below == NonBlankBelow(lines, k)
                      above == NonBlankAbove(lines, k)
                  IN  /\ reqs[n].context_before =
                            IF below = {} THEN <<>> ELSE <<lines[Max(below)]>>
                      /\ reqs[n].context_after =
                            IF above = {} THEN <<>> ELSE <<lines[Min(above)]>>

\* the context before a shall-line was found behind a blank line, and the shall-line
\* that directly follows a header has none
C8_Witness ==
    /\ pc = "done"
    /\ Len(stream) = 4
    /\ stream[2].line = LineA
    /\ stream[3].line = LineBlank
    /\ stream[4].line = LineShall
    /\ Len(sections) = 1
    /\ sections[1].requirements[1].context_before = <<LineA>>
    /\ sections[1].requirements[1].context_after = <<>>

(***************************************************************************)
(* C9.  The anchor of a requirement is the first match of the anchor       *)
(* pattern on the shall-line; only when the shall-line has no match, the   *)
(* first match on the context-after line; absent when neither has one.  A  *)
(* second anchor of a line is never a requirement's anchor, and an anchor  *)
(* that stands only on the context-before line is not attached.            *)
(***************************************************************************)
SecondAnchorB == <<"(", "See", " ", "B", ")">>

C9_AnchorFromShallLineThenAfter ==
    \A i \in DOMAIN sections :
        LET lines == ExpectedLines(i)
            shall == ShallIndexes(lines)
            reqs == sections[i].requirements
        IN  /\ Len(reqs) = Cardinality(shall)
            /\ \A n \in DOMAIN reqs :
                  LET k == KthSmallest(shall, n)
                      above == NonBlankAbove(lines, k)
                  IN  /\ reqs[n].anchor =
                            IF FirstAnchor(lines[k]) # None THEN FirstAnchor(lines[k])
                            ELSE IF above # {} THEN FirstAnchor(lines[Min(above)])
                            ELSE None
                      /\ reqs[n].anchor # Some(SecondAnchorB)

\* a shall-line with two anchors keeps its first one although the next line has an
\* anchor too; a shall-line without anchor takes the anchor of the line after it and
\* not the one of the line before it
C9_Witness ==
    /\ pc = "done"
    /\ Len(sections) = 1
    /\ sections[1].raw_content =
          LineShallTwoAnchors \o <<"\n">> \o LineShall \o <<"\n">> \o LineAnchorC
    /\ sections[1].requirements[1].anchor = Some(<<"(", "see", " ", "A", ")">>)
    /\ sections[1].requirements[2].anchor = Some(LineAnchorC)

(***************************************************************************)
(* C10.  Within each section the requirements are numbered 1, 2, ..., k in *)
(* the order of their shall-lines in the content, without gap or repeat;   *)
(* the id of the k-th is the section id token followed by _req_k, and the  *)
(* numbering starts again at 1 in every section.                           *)
(***************************************************************************)
C10_RequirementsNumberedPerSection ==
    \A i \in DOMAIN sections :
        LET lines == ExpectedLines(i)
            shall == ShallIndexes(lines)
            reqs == sections[i].requirements
            number == NthNumber(i)
            token == <<"section_">> \o
                        [t \in DOMAIN number |-> IF number[t] = "." THEN "_" ELSE number[t]]
        IN  /\ sections[i].id = token
            /\ Len(reqs) = Cardinality(shall)
            /\ \A n \in DOMAIN reqs :
                  /\ reqs[n].requirement_id = token \o <<"_req_">> \o <<DecimalTok(n)>>
                  /\ reqs[n].shall_text = lines[KthSmallest(shall, n)]

\* two sections with one requirement each: both requirements have the number 1
C10_Witness ==
    /\ pc = "done"
    /\ Len(sections) = 2
    /\ Len(sections[1].requirements) = 1
    /\ Len(sections[2].requirements) = 1
    /\ sections[1].requirements[1].requirement_id = <<"section_", "3", "_req_", "1">>
    /\ sections[2].requirements[1].requirement_id =
          <<"section_", "3", "_", "2", "_req_", "1">>

(***************************************************************************)
(* What the stream says about the records of the flattened parser: the     *)
(* sections closed so far and the records each of them must have given.    *)
(***************************************************************************)
\* the number of sections of the stream that have been finalized
Closed ==
    IF pc \in {"loop", "flat_loop"} /\ NumHeaders > 0 THEN NumHeaders - 1 ELSE NumHeaders

\* the number of shall-lines in the content of the i-th section
ShallCount(i) == Cardinality(ShallIndexes(ExpectedLines(i)))

\* the number of flattened records the i-th section must have given
RecordsOf(i) == IF ShallCount(i) = 0 THEN 1 ELSE ShallCount(i)

\* the number of flattened records of the sections before the i-th
RECURSIVE RecordsBefore(_)
RecordsBefore(i) == IF i <= 1 THEN 0 ELSE RecordsBefore(i - 1) + RecordsOf(i - 1)

\* the records in `output` that belong to the i-th section
SectionRecords(i) == SubSeq(output, RecordsBefore(i) + 1, RecordsBefore(i) + RecordsOf(i))

(***************************************************************************)
(* C11.  A section whose content has no shall-line gives exactly one       *)
(* record in flattened shape, with shall sentence, both contexts and       *)
(* anchor absent, and one section record with an empty requirements list   *)
(* in nested shape; a section with n >= 1 shall-lines gives exactly n      *)
(* flattened records, each with a shall sentence, and no record of an      *)
(* empty section besides.                                                  *)
(***************************************************************************)
C11_EmptySectionOneFlatRecord ==
    /\ pc \in {"loop", "done"} =>
          /\ Len(sections) = Closed
          /\ \A i \in DOMAIN sections :
                /\ sections[i].hierarchy = HeaderFullName(stream[NthHeader(i)].line)
                /\ ShallCount(i) = 0 => sections[i].requirements = <<>>
    /\ pc \in {"flat_loop", "flat_done"} =>
          /\ Len(output) = RecordsBefore(Closed + 1)
          /\ \A i \in 1..Closed :
                LET records == SectionRecords(i)
                IN  /\ \A n \in DOMAIN records :
                          records[n].hierarchy = HeaderFullName(stream[NthHeader(i)].line)
                    /\ IF ShallCount(i) = 0
                       THEN /\ Len(records) = 1
                            /\ records[1].shall_sentence = None
                            /\ records[1].before_shall = None
                            /\ records[1].after_shall = None
                            /\ records[1].anchor = None
                       ELSE /\ Len(records) = ShallCount(i)
                            /\ \A n \in DOMAIN records : records[n].shall_sentence # None

\* the flattened parser has returned one record without shall sentence for a section
\* without shall-line and two records for a section with two shall-lines
C11_Witness ==
    /\ pc = "flat_done"
    /\ NumHeaders = 2
    /\ ShallCount(1) = 0
    /\ ShallCount(2) = 2
    /\ Len(output) = 3
    /\ output[1].shall_sentence = None
    /\ output[2].shall_sentence = Some(LineShall)
    /\ output[3].shall_sentence = Some(LineShall)

(***************************************************************************)
(* C12.  A line gives a requirement if and only if it holds the whole word *)
(* "shall", in any letter case, and is a content line of a section (a line *)
(* that is no header and stands after the first header): the shall texts   *)
(* of a section are, in order, those of its content lines that hold the    *)
(* word.  A header line gives no requirement even when its title holds     *)
(* "shall", nor does a word that only contains "shall", and the number of  *)
(* requirements parse returns is the number of such content lines.         *)
(***************************************************************************)
\* the line holds "shall" as a word of its own
HasShallWord(line) ==
    \E t \in DOMAIN line :
        /\ line[t] \in {"shall", "Shall", "SHALL"}
        /\ (t = 1 \/ line[t - 1] \in {" ", "\t", ".", "(", ")", ",", ";"})
        /\ (t = Len(line) \/ line[t + 1] \in {" ", "\t", ".", "(", ")", ",", ";"})

\* the lines of a sequence that hold the word, in order
RECURSIVE ShallWordLines(_)
ShallWordLines(lines) ==
    IF lines = <<>> THEN <<>>
    ELSE (IF HasShallWord(Head(lines)) THEN <<Head(lines)>> ELSE <<>>)
             \o ShallWordLines(Tail(lines))

\* the positions of the stream that hold a content line with the word
ShallWordContentPositions ==
    IF NumHeaders = 0 THEN {}
    ELSE {j \in (NthHeader(1) + 1)..Len(stream) :
             ~IsHeader(stream[j].line) /\ HasShallWord(stream[j].line)}

C12_RequirementIffShallContentLine ==
    /\ \A i \in DOMAIN sections :
          LET reqs == sections[i].requirements
          IN  /\ [n \in DOMAIN reqs |-> reqs[n].shall_text] =
                    ShallWordLines(ExpectedLines(i))
              /\ \A n \in DOMAIN reqs : ~IsHeader(reqs[n].shall_text)
    /\ pc = "done" =>
          CountRequirements(sections) = Cardinality(ShallWordContentPositions)

\* a shall-line before the first header, a header with "shall" in its title and a
\* line with the word "marshall" gave nothing; the one requirement is the line with
\* "SHALL"
C12_Witness ==
    /\ pc = "done"
    /\ Len(stream) = 4
    /\ stream[1].line = LineShall
    /\ stream[2].line = H4Shall
    /\ stream[3].line = LineMarshall
    /\ stream[4].line = LineShallAnchor
    /\ Len(sections) = 1
    /\ Len(sections[1].requirements) = 1
    /\ sections[1].requirements[1].shall_text = LineShallAnchor

(***************************************************************************)
(* C13.  In nested shape the requirement_count of a section's metadata is  *)
(* the number of requirements extracted from the section.  In flattened    *)
(* shape every record of a section carries the same requirement_count:     *)
(* the number of shall-lines of the section, or 1 when it has none.        *)
(***************************************************************************)
C13_RequirementCount ==
    /\ \A i \in DOMAIN sections :
          /\ sections[i].metadata.requirement_count = Len(sections[i].requirements)
          /\ sections[i].metadata.requirement_count = ShallCount(i)
    /\ pc \in {"flat_loop", "flat_done"} =>
          \A i \in 1..Closed :
              \A n \in DOMAIN SectionRecords(i) :
                  SectionRecords(i)[n].metadata.requirement_count =
                      IF ShallCount(i) = 0 THEN 1 ELSE ShallCount(i)

\* the flattened parser has returned two records with the count 2 for a section with
\* two shall-lines and a record with the count 1 for a section without shall-line
C13_Witness ==
    /\ pc = "flat_done"
    /\ NumHeaders = 2
    /\ ShallCount(1) = 2
    /\ ShallCount(2) = 0
    /\ Len(output) = 3
    /\ output[1].metadata.requirement_count = 2
    /\ output[2].metadata.requirement_count = 2
    /\ output[3].metadata.requirement_count = 1

(***************************************************************************)
(* C14, as stated.  The reference_count of a section is the number of      *)
(* matches of the anchor pattern over the whole content of the section     *)
(* and is never smaller than the number of the section's requirements      *)
(* that carry an anchor.  It fails: a shall-line without anchor takes the  *)
(* anchor of the shall-line after it, which keeps that anchor too, so one  *)
(* match in the content stands behind two requirements.                    *)
(***************************************************************************)
\* the number of requirements of a section record that carry an anchor
AnchoredRequirements(section) ==
    Cardinality({n \in DOMAIN section.requirements :
                    section.requirements[n].anchor # None})

C14_ReferenceCountSuperset ==
    \A i \in DOMAIN sections :
        /\ sections[i].metadata.reference_count =
              Len(ANCHOR_PATTERN_findall(join_newline(ExpectedLines(i))))
        /\ sections[i].metadata.reference_count >= AnchoredRequirements(sections[i])

(***************************************************************************)
(* C14, amended.  The reference_count of a section is the number of        *)
(* matches of the anchor pattern over the whole joined content of the      *)
(* section, and it is never smaller than the number of content lines       *)
(* whose anchor is attached to a requirement (the shall-line itself, or    *)
(* the context-after line when the shall-line has no anchor).  It can be   *)
(* smaller than the number of requirements that carry an anchor.           *)
(***************************************************************************)
\* the content line that gives its anchor to the requirement of shall-line k, 0 when
\* the requirement has no anchor
AnchorSupplier(lines, k) ==
    LET above == NonBlankAbove(lines, k)
    IN  IF FirstAnchor(lines[k]) # None THEN k
        ELSE IF above # {} /\ FirstAnchor(lines[Min(above)]) # None THEN Min(above)
        ELSE 0

AnchorSuppliers(lines) == {AnchorSupplier(lines, k) : k \in ShallIndexes(lines)} \ {0}

C14_ReferenceCountOverContent ==
    \A i \in DOMAIN sections :
        /\ sections[i].metadata.reference_count =
              Len(ANCHOR_PATTERN_findall(join_newline(ExpectedLines(i))))
        /\ sections[i].metadata.reference_count >=
              Cardinality(AnchorSuppliers(ExpectedLines(i)))

\* a section with one match in its content and two requirements that carry it
C14_Witness ==
    \E i \in DOMAIN sections :
        /\ sections[i].raw_content = LineShall \o <<"\n">> \o LineShallAnchor
        /\ sections[i].metadata.reference_count = 1
        /\ AnchoredRequirements(sections[i]) = 2
        /\ AnchorSuppliers(ExpectedLines(i)) = {2}

(***************************************************************************)
(* C15.  For every emitted section, depth is the number of dot-separated   *)
(* components of the number its header states and has_subsections is true  *)
(* exactly when depth >= 2.  Both depend on the section's own number only: *)
(* a top-level section keeps has_subsections = FALSE when sections below   *)
(* it appear later in the stream, and a section has at most depth - 1      *)
(* ancestors, fewer when a prefix of its number has no header before it.   *)
(***************************************************************************)
\* the number of dot-separated components of a section number
Components(number) == Cardinality({t \in DOMAIN number : number[t] = "."}) + 1

C15_DepthAndHasSubsections ==
    \A i \in DOMAIN sections :
        LET n == Components(NthNumber(i))
        IN  /\ sections[i].metadata.depth = n
            /\ sections[i].metadata.has_subsections = (n >= 2)
            /\ Len(sections[i].hierarchy_tree.ancestors) <= n - 1

\* section 3 was emitted with depth 1 and without subsections, section 3.2.1 after it
\* with depth 3 and one ancestor only
C15_Witness ==
    /\ Len(sections) >= 2
    /\ NthNumber(1) = <<"3">>
    /\ sections[1].metadata.depth = 1
    /\ sections[1].metadata.has_subsections = FALSE
    /\ NthNumber(2) = <<"3", ".", "2", ".", "1">>
    /\ sections[2].metadata.depth = 3
    /\ sections[2].metadata.has_subsections = TRUE
    /\ Len(sections[2].hierarchy_tree.ancestors) = 1

(***************************************************************************)
(* C16.  End to end: the five lines "3 Power", "Overview text.",           *)
(* "3.1 Power Budget", "The controller shall report power budget. (see     *)
(* Section 3.2)", "End text." on page 1 give two sections with the ids 3   *)
(* and 3.1; section 3.1 has the parent "3 Power" and exactly one           *)
(* requirement, whose shall text contains "shall report power budget",     *)
(* whose anchor is "(see Section 3.2)", whose context before is absent     *)
(* and whose context after is "End text."; section 3 has no requirement.   *)
(***************************************************************************)
EndToEndDocument ==
    <<H3Power, LineOverview, H31PowerBudget, LineControllerShall, LineEndText>>

\* parse has returned after reading exactly the document of the example
EndToEndRead ==
    /\ pc = "done"
    /\ Len(stream) = Len(EndToEndDocument)
    /\ \A l \in DOMAIN stream :
          stream[l].line = EndToEndDocument[l] /\ stream[l].page_number = 1

\* seq holds part as a run of consecutive elements
Contains(seq, part) ==
    \E a \in 1..(Len(seq) - Len(part) + 1) : SubSeq(seq, a, a + Len(part) - 1) = part

C16_EndToEndExample ==
    EndToEndRead =>
        /\ Len(sections) = 2
        /\ sections[1].id = <<"section_", "3">>
        /\ sections[1].hierarchy = H3Power
        /\ sections[1].requirements = <<>>
        /\ sections[2].id = <<"section_", "3", "_", "1">>
        /\ sections[2].hierarchy = H31PowerBudget
        /\ sections[2].hierarchy_tree.parent = Some(H3Power)
        /\ Len(sections[2].requirements) = 1
        /\ LET req == sections[2].requirements[1]
           IN  /\ Contains(req.shall_text,
                           <<"shall", " ", "report", " ", "power", " ", "budget">>)
               /\ req.anchor =
                     Some(<<"(", "see", " ", "Section", " ", "3", ".", "2", ")">>)
               /\ req.context_before = <<>>
               /\ req.context_after = <<LineEndText>>

\* the document of the example has been parsed and gave a requirement
C16_Witness ==
    /\ EndToEndRead
    /\ Len(sections) = 2
    /\ Len(sections[2].requirements) = 1

(***************************************************************************)
(* C17.  For every finite stream, whatever its lines are (headers out of   *)
(* numeric order, ids that repeat, measurements that read as headers,      *)
(* empty lines, no header at all), parse terminates and returns an         *)
(* output: it is always at one of its regular positions, it reaches the    *)
(* position where it has returned, and the output it returns has one       *)
(* section for every header line read (in flattened shape the records of   *)
(* these sections).                                                        *)
(***************************************************************************)
C17_NoErrorState ==
    /\ pc \in {"loop", "done", "flat_loop", "flat_done"}
    /\ pc = "done" => Len(sections) = NumHeaders
    /\ pc = "flat_done" => Len(output) = RecordsBefore(NumHeaders + 1)

C17_AlwaysCompletes == [](C17_NoErrorState) /\ <>(pc \in {"done", "flat_done"})

\* parse has returned four sections for a stream that starts with a subsection, goes
\* on with a measurement and ends with two headers of the same id
C17_Witness ==
    /\ pc = "done"
    /\ Len(stream) = 4
    /\ stream[1].line = H32Power
    /\ stream[2].line = LineMeasure
    /\ stream[3].line = H3Intro
    /\ stream[4].line = H3Intro
    /\ Len(sections) = 4

(***************************************************************************)
(* C18.  When the input path does not exist, constructing the parser       *)
(* fails before any page is read, any section is segmented, the title map  *)
(* is created or any output is written: the command is either still        *)
(* before the construction or has ended, and when it has ended its exit    *)
(* status is not zero.                                                     *)
(***************************************************************************)
C18_MissingPathAbortsFirst ==
    (process.argc >= 2 /\ ~process.path_exists) =>
        /\ pc \in {"main", "exit"}
        /\ stream = <<>>
        /\ sections = <<>>
        /\ current = None
        /\ ~process.constructed
        /\ process.output_file = None
        /\ pc = "exit" => process.exit_status # None /\ process.exit_status[1] # 0

\* the command was given a path that does not exist and has ended with status 1
C18_Witness ==
    /\ process.argc >= 2
    /\ ~process.path_exists
    /\ pc = "exit"
    /\ process.exit_status = Some(1)

(***************************************************************************)
(* C19.  Two parser instances that read two documents with their steps     *)
(* interleaved in any order each return what a fresh instance returns      *)
(* when it reads the same document on its own, sections and title map      *)
(* alike; every name in a hierarchy tree of an instance is the full name   *)
(* of a header of that instance's own document.                            *)
(***************************************************************************)
\* the full names stated by the header lines of a document
HeaderNames(document) ==
    {HeaderFullName(document[j].line) :
        j \in {k \in DOMAIN document : IsHeader(document[k].line)}}

\* the names in the hierarchy trees of a list of sections
TreeNames(secs) ==
    UNION {Range(secs[i].hierarchy_tree.ancestors) \cup {secs[i].hierarchy_tree.current}
            : i \in DOMAIN secs}

C19_InstancesDoNotInterfere ==
    /\ pc = "done" =>
          /\ sections = parse_alone(stream).sections
          /\ section_title_map = parse_alone(stream).section_title_map
    /\ other.pc = "done" =>
          /\ other.sections = parse_alone(other.stream).sections
          /\ other.section_title_map = parse_alone(other.stream).section_title_map
    /\ TreeNames(sections) \subseteq HeaderNames(stream)
    /\ TreeNames(other.sections) \subseteq HeaderNames(other.stream)

\* both instances have returned; the first read "3 Intro" and the second "3 Power"
\* before each read "3.2 Power", and each names its own header as the parent
C19_Witness ==
    /\ pc = "done"
    /\ other.pc = "done"
    /\ Len(sections) = 2
    /\ Len(other.sections) = 2
    /\ sections[2].hierarchy_tree.parent = Some(H3Intro)
    /\ other.sections[2].hierarchy_tree.parent = Some(H3Power)

(***************************************************************************)
(* C20.  The pipeline is deterministic: two fresh parser instances that    *)
(* have read the same stream hold the same sections (same order, trees,    *)
(* requirements, anchors and metadata) and the same title map, whatever    *)
(* the order of their steps was, and the records written are the records   *)
(* shaped from these sections.  Shaping the sections into records changes  *)
(* neither the sections nor the title map.                                 *)
(***************************************************************************)
C20_State ==
    (pc \in {"done", "exit"} /\ other.pc = "done" /\ other.stream = stream) =>
        /\ other.sections = sections
        /\ other.section_title_map = section_title_map
        /\ to_json(other.sections) = to_json(sections)
        /\ process.output_file # None =>
              process.output_file[1] = to_json(other.sections)

C20_Step ==
    (pc = "done" /\ pc' = "exit") =>
        /\ process'.output_file = Some(to_json(sections))
        /\ UNCHANGED <<sections, section_title_map>>

TokenOf(number) ==
    <<"section_">> \o [t \in DOMAIN number |-> IF number[t] = "." THEN "_" ELSE number[t]]

\* the nested records and the data written from them carry the token of their section
NestedRecordsCarryToken ==
    \A i \in DOMAIN sections :
        /\ sections[i].id = TokenOf(NthNumber(i))
        /\ to_json(sections)[i].id = TokenOf(NthNumber(i))
        /\ \A n \in DOMAIN sections[i].requirements :
              SubSeq(sections[i].requirements[n].requirement_id, 1,
                     Len(sections[i].id)) = sections[i].id
        /\ \A j \in DOMAIN sections :
              (sections[i].id = sections[j].id) <=> (NthNumber(i) = NthNumber(j))

\* the flattened records carry the token of their section and, when they stand for a
\* requirement, its id
FlatRecordsCarryToken ==
    pc \in {"flat_loop", "flat_done"} =>
        \A i \in 1..Closed :
            \A n \in DOMAIN SectionRecords(i) :
                LET record == SectionRecords(i)[n]
                IN  /\ "id" \in DOMAIN record
                    /\ record.id = TokenOf(NthNumber(i))
                    /\ record.shall_sentence # None =>
                          "requirement_id" \in DOMAIN record

C21_EveryRecordCarriesSectionId ==
    NestedRecordsCarryToken /\ FlatRecordsCarryToken

(***************************************************************************)
(* C22.  A section is immutable once it is finalized: every step of parse  *)
(* leaves the records emitted so far as they are and only appends to them, *)
(* in nested and in flattened shape, so the output after a prefix of the   *)
(* stream is a prefix of the output after any longer prefix; the output    *)
(* of the nested parser after a prefix is what a fresh parser holds after  *)
(* reading that prefix.                                                    *)
(***************************************************************************)
\* `longer` starts with `shorter`
IsPrefixOf(shorter, longer) ==
    Len(shorter) <= Len(longer) /\ SubSeq(longer, 1, Len(shorter)) = shorter

C22_State ==
    pc = "loop" =>
        /\ sections = parse_prefix(stream, Len(stream)).sections
        /\ \A n \in 0..Len(stream) :
              IsPrefixOf(parse_prefix(stream, n).sections, sections)

C22_Step == IsPrefixOf(sections, sections') /\ IsPrefixOf(output, output')

C22_FinalizedSectionsImmutable == [](C22_State) /\ [][C22_Step]_vars

\* section 3.2 was emitted without ancestor and stays so after the header of section 3
\* and a second header 3.2, whose section names "3 Intro" as its ancestor
C22_Witness ==
    /\ pc = "done"
    /\ Len(sections) = 3
    /\ sections[1].hierarchy = H32Power
    /\ sections[1].hierarchy_tree.ancestors = <<>>
    /\ sections[2].hierarchy = H3Intro
    /\ sections[3].hierarchy = H32Power
    /\ sections[3].hierarchy_tree.ancestors = <<H3Intro>>

(***************************************************************************)
(* C23.  The title map changes only when a header is recognized and never  *)
(* loses a key: reading a line that is no header and finalizing the open   *)
(* section at the end of the stream leave it unchanged; reading a header   *)
(* (which finalizes the open section and resolves its hierarchy tree)      *)
(* changes the entry of that header's number and no other; and after any   *)
(* prefix of the stream the keys are exactly the numbers of the headers    *)
(* read so far.  (Whether the entry of a number that repeats keeps its     *)
(* first name is the matter of C1.)                                        *)
(***************************************************************************)
\* the numbers stated by the header lines read so far
HeaderNumbers == {HeaderNumber(stream[j].line) : j \in HeaderPositions}

C23_State == DOMAIN section_title_map = HeaderNumbers

C23_Step ==
    /\ DOMAIN section_title_map \subseteq DOMAIN section_title_map'
    /\ IF stream' # stream /\ IsHeader(Last(stream').line)
       THEN LET number == HeaderNumber(Last(stream').line)
            IN  /\ DOMAIN section_title_map' = DOMAIN section_title_map \cup {number}
                /\ section_title_map'[number] = HeaderFullName(Last(stream').line)
                /\ \A k \in DOMAIN section_title_map :
                      k # number => section_title_map'[k] = section_title_map[k]
       ELSE UNCHANGED section_title_map

NestedTextVerbatim ==
    \A i \in DOMAIN sections :
        LET lines == ExpectedLines(i)
            reqs == sections[i].requirements
            idx == ShallIndexes(lines)
        IN  /\ Len(reqs) = Cardinality(idx)
            /\ \A n \in DOMAIN reqs :
                  LET k == KthSmallest(idx, n)
                      below == NonBlankBelow(lines, k)
                      above == NonBlankAbove(lines, k)
                  IN  /\ reqs[n].shall_text = lines[k]
                      /\ reqs[n].context_before =
                            IF below = {} THEN <<>> ELSE <<lines[Max(below)]>>
                      /\ reqs[n].context_after =
                            IF above = {} THEN <<>> ELSE <<lines[Min(above)]>>

\* the context lines of the flattened records are content lines as they are
FlatContextVerbatim ==
    pc \in {"flat_loop", "flat_done"} =>
        \A i \in 1..Closed :
            LET lines == ExpectedLines(i)
                idx == ShallIndexes(lines)
            IN  \A n \in 1..Cardinality(idx) :
                    LET k == KthSmallest(idx, n)
                        below == NonBlankBelow(lines, k)
                        above == NonBlankAbove(lines, k)
                        record == SectionRecords(i)[n]
                    IN  /\ record.before_shall =
                              IF below = {} THEN None ELSE Some(lines[Max(below)])
                        /\ record.after_shall =
                              IF above = {} THEN None ELSE Some(lines[Min(above)])

\* the shall sentences of the flattened records are the shall-lines as they are
FlatTextVerbatim ==
    pc \in {"flat_loop", "flat_done"} =>
        \A i \in 1..Closed :
            LET lines == ExpectedLines(i)
                idx == ShallIndexes(lines)
            IN  \A n \in 1..Cardinality(idx) :
                    SectionRecords(i)[n].shall_sentence =
                        Some(lines[KthSmallest(idx, n)])

C24_ShallTextVerbatim ==
    NestedTextVerbatim /\ FlatContextVerbatim /\ FlatTextVerbatim

(***************************************************************************)
(* C25.  In the numeric-hierarchy variants build_hierarchy_tree is a       *)
(* function of the section number alone: for a number of n components the  *)
(* ancestors are its n - 1 strict prefixes that end before a dot, in       *)
(* increasing length; the parent is the number without its last component  *)
(* (absent when n = 1) and the grandparent the number without its last two *)
(* components (absent when n <= 2).  No header of any of these numbers     *)
(* needs to have been read: the title map plays no part.                   *)
(***************************************************************************)
\* the positions of the dots of a section number
DotPositions(number) == {t \in DOMAIN number : number[t] = "."}

C25_NumericTreeFromIdAlone ==
    (pc = "return" /\ call.function = "build_hierarchy_tree") =>
        LET id == call.hierarchy
            tree == call.result[1]
            dots == DotPositions(id)
            n == Cardinality(dots) + 1
        IN  /\ tree.current = id
            /\ Len(tree.ancestors) = n - 1
            /\ \A k \in 1..(n - 1) :
                  tree.ancestors[k] = SubSeq(id, 1, KthSmallest(dots, k) - 1)
            /\ tree.parent =
                  IF n = 1 THEN None ELSE Some(SubSeq(id, 1, KthSmallest(dots, n - 1) - 1))
            /\ tree.grandparent =
                  IF n <= 2 THEN None ELSE Some(SubSeq(id, 1, KthSmallest(dots, n - 2) - 1))

\* the tree of 3.2.1 was built although no header was ever read: its ancestors are
\* 3 and 3.2
C25_Witness ==
    /\ pc = "return"
    /\ call.function = "build_hierarchy_tree"
    /\ call.hierarchy = <<"3", ".", "2", ".", "1">>
    /\ section_title_map = <<>>
    /\ call.result[1].ancestors = <<<<"3">>, <<"3", ".", "2">>>>
    /\ call.result[1].parent = Some(<<"3", ".", "2">>)
    /\ call.result[1].grandparent = Some(<<"3">>)

(***************************************************************************)
(* C26.  Every requirement of a nested section record carries the data of  *)
(* the section that owns it: its sectionHierarchy is the full name of the  *)
(* section's header, its parentHierarchy is the parent of the section's    *)
(* hierarchy tree, and its pageNumber is the page of the section's header  *)
(* line, also when the shall-line stands on a later page.  The same holds  *)
(* of the data to_json writes.                                             *)
(***************************************************************************)
C26_RequirementCarriesSectionData ==
    \A i \in DOMAIN sections :
        LET header == stream[NthHeader(i)]
            written == to_json(sections)[i]
        IN  /\ sections[i].page_number = header.page_number
            /\ \A n \in DOMAIN sections[i].requirements :
                  LET r == sections[i].requirements[n]
                      w == written.requirements[n]
                  IN  /\ r.hierarchy = HeaderFullName(header.line)
                      /\ r.hierarchy = sections[i].hierarchy
                      /\ r.parent_hierarchy = sections[i].hierarchy_tree.parent
                      /\ r.page_number = header.page_number
                      /\ w.sectionHierarchy = written.hierarchy
                      /\ w.parentHierarchy = written.hierarchyTree.parent
                      /\ w.pageNumber = written.pageNumber

\* section 3.2 was opened on page 1 and its shall-line was read on page 2: the
\* requirement has page 1 and the parent "3 Intro"
C26_Witness ==
    \E i \in DOMAIN sections :
        /\ sections[i].hierarchy = H32Power
        /\ stream[NthHeader(i)].page_number = 1
        /\ Len(sections[i].requirements) = 1
        /\ stream[SectionEnd(i)].page_number = 2
        /\ stream[SectionEnd(i)].line = LineShall
        /\ sections[i].requirements[1].page_number = 1
        /\ sections[i].requirements[1].parent_hierarchy = Some(H3Intro)

(***************************************************************************)
(* C27.  For every section a named-hierarchy parser emits, the `current`   *)
(* entry of its hierarchy tree is the section's own full name, the number  *)
(* and the title of its own header joined by a blank, also when several    *)
(* headers of the stream state the same number; the number of an open or   *)
(* emitted section is always a key of the title map, so `current` is       *)
(* never the bare number.                                                  *)
(***************************************************************************)
C27_CurrentIsOwnFullName ==
    /\ \A i \in DOMAIN sections :
          LET header == stream[NthHeader(i)].line
              tree == sections[i].hierarchy_tree
          IN  /\ tree.current = HeaderFullName(header)
              /\ tree.current = sections[i].hierarchy
              /\ tree.current # NthNumber(i)
    /\ \A i \in 1..NumHeaders : NthNumber(i) \in DOMAIN section_title_map
    /\ current # None => section_title_map[current[1].number] = current[1].full_name

\* the headers "3 Intro" and "3 Power" state the same number; each of their sections
\* was emitted with its own full name as `current`
C27_Witness ==
    \E i \in DOMAIN sections :
        /\ i + 1 \in DOMAIN sections
        /\ sections[i].hierarchy_tree.current = H3Intro
        /\ sections[i + 1].hierarchy_tree.current = H3Power
        /\ NthNumber(i) = NthNumber(i + 1)

(***************************************************************************)
(* C28.  A second call of parse on the same parser instance, over the same *)
(* pages, returns the records of the first call, and the hierarchy trees   *)
(* of the second call name only headers that stand before the section in   *)
(* the stream.  It fails: parse starts its locals afresh but not the title *)
(* map, which still holds every header of the first call, so in the second *)
(* call a section whose ancestor's header comes later in the stream is     *)
(* emitted with that ancestor.                                             *)
(***************************************************************************)
C28_SecondCallSameRecords ==
    pc = "done_again" =>
        /\ call.result[1] = sections
        /\ \A i \in DOMAIN call.result[1] :
              \A a \in Range(call.result[1][i].hierarchy_tree.ancestors) :
                  NamesEarlierHeader(i, a)

(***************************************************************************)
(* C29.  In the table-of-contents variant, for every sequence of entries   *)
(* (level, title, page), build_toc_index gives one index entry per entry   *)
(* of the table, in order, with the page and the title of that entry, and  *)
(* the hierarchy_tree of each index entry lists the titles of the levels   *)
(* active at that entry in strictly increasing level order: it holds no    *)
(* title of a level deeper than the entry's own and ends with the entry's  *)
(* own title.  An earlier entry is active at entry k when no entry after   *)
(* it, up to k, has its level or a level above it.                         *)
(***************************************************************************)
\* the entries of the table that are active at its k-th entry
ActiveAt(toc, k) ==
    {j \in 1..k : \A m \in (j + 1)..k : toc[m].level > toc[j].level}

C29_TocIndexTree ==
    pc \in {"toc_loop", "toc_done", "resolved"} =>
        /\ Len(call.toc_index) = Len(call.toc)
        /\ \A k \in DOMAIN call.toc :
              LET entry == call.toc_index[k]
                  tree == entry.hierarchy_tree
                  active == ActiveAt(call.toc, k)
              IN  /\ entry.page = call.toc[k].page
                  /\ entry.hierarchy = call.toc[k].title
                  /\ Len(tree) = Cardinality(active)
                  /\ \A n \in DOMAIN tree :
                        tree[n] = call.toc[KthSmallest(active, n)].title
                  /\ \A i, j \in active :
                        i < j => call.toc[i].level < call.toc[j].level
                  /\ \A j \in active : call.toc[j].level <= call.toc[k].level
                  /\ tree[Len(tree)] = call.toc[k].title

\* a table with the levels 1, 3, 2: the third entry has dropped the title of level 3
\* and names level 1 and itself
C29_Witness ==
    /\ pc = "toc_done"
    /\ Len(call.toc) = 3
    /\ call.toc[1].level = 1 /\ call.toc[1].title = <<"Intro">>
    /\ call.toc[2].level = 3 /\ call.toc[2].title = <<"Power">>
    /\ call.toc[3].level = 2 /\ call.toc[3].title = <<"Intro">>
    /\ call.toc_index[2].hierarchy_tree = <<<<"Intro">>, <<"Power">>>>
    /\ call.toc_index[3].hierarchy_tree = <<<<"Intro">>, <<"Intro">>>>

(***************************************************************************)
(* C30.  In the table-of-contents variant, resolve_section(toc_index, p)   *)
(* returns the hierarchy and the tree of the last entry of the leading run *)
(* of index entries whose page is at most p, and "General" with the tree   *)
(* ["General"] when the index is empty or the page of its first entry is   *)
(* greater than p; when the pages of the index never decrease, this is the *)
(* last entry whose page is at most p.                                     *)
(***************************************************************************)
\* the length of the leading run of entries of the index whose page is at most p
LeadingRun(toc_index, p) ==
    Max({n \in 0..Len(toc_index) : \A j \in 1..n : toc_index[j].page <= p})

\* the pages of the index never decrease
PagesNonDecreasing(toc_index) ==
    \A i, j \in DOMAIN toc_index : i < j => toc_index[i].page <= toc_index[j].page

C30_ResolveLeadingRun ==
    pc = "resolved" =>
        LET p == call.page_number[1]
            index == call.toc_index
            n == LeadingRun(index, p)
            within == {j \in DOMAIN index : index[j].page <= p}
        IN  /\ call.resolved[1] =
                  IF n = 0 THEN <<General, <<General>>>>
                  ELSE <<index[n].hierarchy, index[n].hierarchy_tree>>
            /\ (index = <<>> \/ index[1].page > p) =>
                  call.resolved[1] = <<General, <<General>>>>
            /\ (PagesNonDecreasing(index) /\ within # {}) => n = Max(within)

\* the pages of the index are 1, 3, 1 and page 2 is resolved: the first entry is
\* returned, not the third
C30_Witness ==
    /\ pc = "resolved"
    /\ call.page_number = Some(2)
    /\ Len(call.toc_index) = 3
    /\ call.toc_index[1].page = 1
    /\ call.toc_index[2].page = 3
    /\ call.toc_index[3].page = 1
    /\ call.toc[1].title = <<"Intro">>
    /\ call.toc[3].title = <<"Power">>
    /\ call.resolved[1][1] = <<"Intro">>

====
